---- MODULE Spec2Model ----
(***************************************************************************)
(* Christmas Wonderland: the Express REST server (server.js) over its      *)
(* MySQL store (database schema), and the transformer library              *)
(* (transformers/index.js).                                                *)
(*                                                                         *)
(* The server handlers are modelled as processes in request slots: one     *)
(* action admits a request (the middleware and the handler's synchronous   *)
(* prefix, up to its first await), and one action per awaited store call   *)
(* runs that call against the tables together with the continuation up to  *)
(* the next await or the response.  Requests in different slots            *)
(* interleave at those awaits, as they do on the Node event loop.          *)
(*                                                                         *)
(* The handlers of one resource touch only that resource's tables, so the  *)
(* machine is checked per resource: SpecTodos (the todo routes, requested  *)
(* by registered users), SpecGate (every route behind authenticateToken,   *)
(* requested with every kind of Authorization header), SpecWishes          *)
(* (POST /api/wishes behind optionalAuth), SpecLists (the wish and gallery *)
(* listings), SpecRegister and SpecAuth (accounts and login),              *)
(* SpecTodoLists (todo listings of several users), SpecMusic, SpecStats,   *)
(* SpecCreation (the creating routes and the daily counters) and           *)
(* SpecServer (every route, one request at a time); the pure functions of  *)
(* the transformer library are applied in SpecPagination, SpecStrings,     *)
(* SpecNumbers, SpecShapers and SpecValidators.                            *)
(*                                                                         *)
(* A statement handed to the store is answered, except in SpecMusic,       *)
(* SpecCreation and SpecServer, where the store may also reject any        *)
(* statement (ExecuteFails); the rate limiters in front of the routes      *)
(* admit the requests modelled here.                                       *)
(***************************************************************************)
EXTENDS Integers, Sequences, FiniteSets, TLC

VARIABLES
    reqs,           \* request slot -> the request being handled there
    users,          \* table users: set of rows
    todos,          \* table todos: set of rows
    wishes,         \* table wishes: set of rows
    gallery_images, \* table gallery_images: set of rows
    music_playlist, \* table music_playlist: set of rows
    site_stats,     \* today's row of table site_stats, or NoRow
    autoinc,        \* table name -> next AUTO_INCREMENT id
    call            \* the last application of a transformer function

vars == <<reqs, users, todos, wishes, gallery_images, music_playlist, site_stats, autoinc,
          call>>
tables == <<users, todos, wishes, gallery_images, music_playlist, site_stats, autoinc>>

-----------------------------------------------------------------------------
(* JavaScript values.  A string is the sequence of its code units.         *)

Undefined == [type |-> "undefined"]
Null == [type |-> "null"]
NaN == [type |-> "number", nan |-> TRUE]
Infinity == [type |-> "number", inf |-> TRUE]
Num(n) == [type |-> "number", num |-> n]
Str(s) == [type |-> "string", str |-> s]
Bool(b) == [type |-> "boolean", bool |-> b]

IsNaN(v) == v = NaN
IsInt(v) == v.type = "number" /\ "num" \in DOMAIN v

\* ToBoolean: what `!v`, `v && ...`, `v ? a : b` test.  An object (a
\* record without a type tag) is truthy.
Truthy(v) ==
    CASE "type" \notin DOMAIN v -> TRUE
      [] v.type = "undefined" -> FALSE
      [] v.type = "null" -> FALSE
      [] v.type = "boolean" -> v.bool
      [] v.type = "number" -> IF IsInt(v) THEN v.num # 0 ELSE ~IsNaN(v)
      [] v.type = "string" -> Len(v.str) > 0
      [] OTHER -> TRUE

\* Array.prototype.includes over an array of string literals.
Includes(allowed, v) == v.type = "string" /\ v.str \in allowed

\* Code units the functions below distinguish.
WhiteSpace == {9, 10, 11, 12, 13, 32}
Digits == 48..57
SignChars == {43, 45}

RECURSIVE SkipWhiteSpace(_)
SkipWhiteSpace(s) ==
    IF s # <<>> /\ Head(s) \in WhiteSpace THEN SkipWhiteSpace(Tail(s)) ELSE s

RECURSIVE DigitPrefix(_)
DigitPrefix(s) ==
    IF s # <<>> /\ Head(s) \in Digits
    THEN <<Head(s)>> \o DigitPrefix(Tail(s))
    ELSE <<>>

RECURSIVE DecimalValue(_)
DecimalValue(ds) ==
    IF ds = <<>> THEN 0
    ELSE 10 * DecimalValue(SubSeq(ds, 1, Len(ds) - 1)) + (ds[Len(ds)] - 48)

\* parseInt(string, 10): leading white space, an optional sign, then the
\* longest prefix of decimal digits; NaN when there is none.
ParseIntString(s) ==
    LET t == SkipWhiteSpace(s)
        neg == t # <<>> /\ Head(t) = 45
        u == IF t # <<>> /\ Head(t) \in SignChars THEN Tail(t) ELSE t
        ds == DigitPrefix(u)
    IN  IF ds = <<>> THEN NaN
        ELSE Num(IF neg THEN 0 - DecimalValue(ds) ELSE DecimalValue(ds))

\* parseInt(value, 10): the argument is converted to a string first, so an
\* integer parses to itself and undefined, null, booleans and NaN to NaN.
parseInt(v) ==
    CASE v.type = "string" -> ParseIntString(v.str)
      [] IsInt(v) -> v
      [] OTHER -> NaN

\* parseFloat on the strings of this model (no fraction or exponent part
\* occurs in an argument of toFloat): the same prefix as parseInt.
parseFloat(v) ==
    CASE v.type = "string" -> ParseIntString(v.str)
      [] v.type = "number" -> v
      [] OTHER -> NaN

\* Math.max / Math.min on numbers: NaN if either is NaN.
MathMax(a, b) ==
    IF IsNaN(a) \/ IsNaN(b) THEN NaN ELSE IF a.num >= b.num THEN a ELSE b
MathMin(a, b) ==
    IF IsNaN(a) \/ IsNaN(b) THEN NaN ELSE IF a.num <= b.num THEN a ELSE b

\* Math.ceil(a / b) for integers a, b.
MathCeilDiv(a, b) ==
    IF IsNaN(a) \/ IsNaN(b) THEN NaN
    ELSE IF b.num = 0 THEN (IF a.num = 0 THEN NaN ELSE Infinity)
    ELSE IF b.num > 0 THEN Num(0 - ((0 - a.num) \div b.num))
    ELSE Num(0 - (a.num \div (0 - b.num)))

\* a * b and a - b on numbers.
Times(a, b) == IF IsNaN(a) \/ IsNaN(b) THEN NaN ELSE Num(a.num * b.num)
Minus1(a) == IF IsNaN(a) THEN NaN ELSE Num(a.num - 1)
\* a < b: false when either is NaN.
Less(a, b) == ~IsNaN(a) /\ ~IsNaN(b) /\ a.num < b.num

-----------------------------------------------------------------------------
(* transformers/index.js: number and pagination transformers.              *)

toInt(value, defaultValue) ==
    LET parsed == parseInt(value)
    IN  IF IsNaN(parsed) THEN defaultValue ELSE parsed

toFloat(value, defaultValue) ==
    LET parsed == parseFloat(value)
    IN  IF IsNaN(parsed) THEN defaultValue ELSE parsed

clamp(value, min, max) ==
    LET num == IF value.type = "number" THEN value ELSE toFloat(value, Num(0))
    IN  MathMin(MathMax(num, min), max)

DefaultMaxLimit == 100

\* normalizePagination without the clamp of the limit.
normalizePaginationUnclamped(page, limit, maxLimitArg) ==
    LET normalizedPage == MathMax(Num(1), toInt(page, Num(1)))
        normalizedLimit == toInt(limit, Num(20))
    IN  [page |-> normalizedPage, limit |-> normalizedLimit,
         offset |-> Times(Minus1(normalizedPage), normalizedLimit)]

normalizePagination(page, limit, maxLimitArg) ==
    LET maxLimit == IF maxLimitArg = Undefined THEN Num(DefaultMaxLimit) ELSE maxLimitArg
        normalizedPage == MathMax(Num(1), toInt(page, Num(1)))
        normalizedLimit == clamp(toInt(limit, Num(20)), Num(1), maxLimit)
        offset == Times(Minus1(normalizedPage), normalizedLimit)
    IN  [page |-> normalizedPage, limit |-> normalizedLimit, offset |-> offset]

\* createPaginationMeta rounding the page count down.
createPaginationMetaFloor(page, limit, total) ==
    [page |-> page, limit |-> limit, total |-> total,
     totalPages |-> IF limit.num = 0 THEN MathCeilDiv(total, limit)
                    ELSE Num(total.num \div limit.num),
     hasNextPage |-> Less(Times(page, limit), total),
     hasPreviousPage |-> Less(Num(1), page)]

createPaginationMeta(page, limit, total) ==
    [page |-> page,
     limit |-> limit,
     total |-> total,
     totalPages |-> MathCeilDiv(total, limit),
     hasNextPage |-> Less(Times(page, limit), total),
     hasPreviousPage |-> Less(Num(1), page)]

-----------------------------------------------------------------------------
(* String literals of server.js, as code units.                            *)

low == <<108, 111, 119>>
medium == <<109, 101, 100, 105, 117, 109>>
high == <<104, 105, 103, 104>>
nice == <<110, 105, 99, 101>>
naughty == <<110, 97, 117, 103, 104, 116, 121>>
general == <<103, 101, 110, 101, 114, 97, 108>>

Priorities == {low, medium, high}
Categories == {nice, naughty}

-----------------------------------------------------------------------------
(* transformers/index.js: string transformers.                             *)

\* What String.prototype.trim removes: white space and line terminators.
TrimSpace ==
    WhiteSpace \cup {160, 5760, 8232, 8233, 8239, 8287, 12288, 65279} \cup 8192..8202
\* /[\x00-\x08\x0B-\x0C\x0E-\x1F\x7F]/
ControlChars == 0..8 \cup {11, 12} \cup 14..31 \cup {127}

RECURSIVE TrimStart(_)
TrimStart(s) == IF s # <<>> /\ Head(s) \in TrimSpace THEN TrimStart(Tail(s)) ELSE s
RECURSIVE TrimEnd(_)
TrimEnd(s) ==
    IF s # <<>> /\ s[Len(s)] \in TrimSpace THEN TrimEnd(SubSeq(s, 1, Len(s) - 1)) ELSE s
\* str.trim()
trim(s) == TrimEnd(TrimStart(s))

\* str.replace(/[chars]/g, '')
Remove(s, chars) == SelectSeq(s, LAMBDA c : c \notin chars)

\* sanitize: the input is trimmed first, then the control characters are
\* taken out of what is left.
sanitize(str) ==
    IF str.type # "string" THEN Str(<<>>)
    ELSE Str(Remove(trim(str.str), ControlChars))

\* s.substring(0, end): a negative end counts as 0, one beyond the length
\* as the length.
Substring0(s, end) ==
    SubSeq(s, 1, IF end < 0 THEN 0 ELSE IF end > Len(s) THEN Len(s) ELSE end)

\* truncate cutting one code unit late.
truncateLate(str, maxLength) ==
    LET sanitized == sanitize(str)
    IN  IF Len(sanitized.str) > maxLength.num
        THEN Str(Substring0(sanitized.str, maxLength.num + 1))
        ELSE sanitized

truncate(str, maxLength) ==
    LET sanitized == sanitize(str)
    IN  IF Len(sanitized.str) > maxLength.num
        THEN Str(Substring0(sanitized.str, maxLength.num))
        ELSE sanitized

\* s.replace(/c/g, by)
RECURSIVE ReplaceAll(_, _, _)
ReplaceAll(s, c, by) ==
    IF s = <<>> THEN <<>>
    ELSE (IF Head(s) = c THEN by ELSE <<Head(s)>>) \o ReplaceAll(Tail(s), c, by)

\* "&amp;", "&lt;", "&gt;", "&quot;", "&#039;"
amp == <<38, 97, 109, 112, 59>>
lt == <<38, 108, 116, 59>>
gt == <<38, 103, 116, 59>>
quot == <<38, 113, 117, 111, 116, 59>>
apos == <<38, 35, 48, 51, 57, 59>>

\* escapeHtml replacing the ampersand last.
escapeHtmlAmpLast(str) ==
    LET sanitized == sanitize(str).str
    IN  Str(ReplaceAll(ReplaceAll(ReplaceAll(ReplaceAll(ReplaceAll(
            sanitized, 60, lt), 62, gt), 34, quot), 39, apos), 38, amp))

escapeHtml(str) ==
    LET sanitized == sanitize(str).str
    IN  Str(ReplaceAll(ReplaceAll(ReplaceAll(ReplaceAll(ReplaceAll(
            sanitized, 38, amp), 60, lt), 62, gt), 34, quot), 39, apos))

\* s.toLowerCase() on the letters A-Z.
toLowerCase(s) == [i \in 1..Len(s) |-> IF s[i] \in 65..90 THEN s[i] + 32 ELSE s[i]]

-----------------------------------------------------------------------------
(* transformers/index.js: boolean transformers.                            *)

\* "true", "1", "yes"
true == <<116, 114, 117, 101>>
one == <<49>>
yes == <<121, 101, 115>>

\* toBool comparing the string as it is.
toBoolCaseSensitive(value) ==
    CASE "type" \notin DOMAIN value -> Bool(TRUE)
      [] value.type = "boolean" -> value
      [] value.type = "number" -> Bool(value # Num(0))
      [] value.type = "string" -> Bool(value.str \in {true, one, yes})
      [] OTHER -> Bool(Truthy(value))

toBool(value) ==
    CASE "type" \notin DOMAIN value -> Bool(TRUE)
      [] value.type = "boolean" -> value
      [] value.type = "number" -> Bool(value # Num(0))
      [] value.type = "string" -> Bool(toLowerCase(value.str) \in {true, one, yes})
      [] OTHER -> Bool(Truthy(value))

-----------------------------------------------------------------------------
(* transformers/index.js: validators.  A validator returns true or throws  *)
(* an Error with a message.                                                *)

Returned(value) == [threw |-> FALSE, value |-> value]
Threw(message) == [threw |-> TRUE, message |-> message]

\* `${n}` for an integer n.
RECURSIVE DecimalDigits(_)
DecimalDigits(n) ==
    IF n < 10 THEN <<48 + n>> ELSE DecimalDigits(n \div 10) \o <<48 + (n % 10)>>
NumberToString(n) == IF n < 0 THEN <<45>> \o DecimalDigits(0 - n) ELSE DecimalDigits(n)

\* allowedValues.join(', ') for an array of strings.
RECURSIVE Join(_)
Join(array) ==
    IF array = <<>> THEN <<>>
    ELSE IF Len(array) = 1 THEN array[1].str
    ELSE array[1].str \o <<44, 32>> \o Join(Tail(array))

\* " is required", " must be between ", " and ", " characters",
\* " must be one of: "
IsRequired == <<32, 105, 115, 32, 114, 101, 113, 117, 105, 114, 101, 100>>
MustBeBetween == <<32, 109, 117, 115, 116, 32, 98, 101, 32, 98, 101, 116, 119, 101, 101, 110, 32>>
And == <<32, 97, 110, 100, 32>>
Characters == <<32, 99, 104, 97, 114, 97, 99, 116, 101, 114, 115>>
MustBeOneOf == <<32, 109, 117, 115, 116, 32, 98, 101, 32, 111, 110, 101, 32, 111, 102, 58, 32>>

\* validators.required testing the value's truthiness.
requiredFalsy(value, fieldName) ==
    IF ~Truthy(value)
    THEN Threw(fieldName \o IsRequired)
    ELSE Returned(Bool(TRUE))

\* validators.required
required(value, fieldName) ==
    IF value = Undefined \/ value = Null \/ value = Str(<<>>)
    THEN Threw(fieldName \o IsRequired)
    ELSE Returned(Bool(TRUE))

\* str.length: the number of code units of a string, undefined for a
\* number or a boolean.
LengthOf(str) == IF str.type = "string" THEN Num(Len(str.str)) ELSE Undefined

\* validators.length; a comparison with undefined is false.
length(str, min, max, fieldName) ==
    LET len == IF Truthy(str) THEN LengthOf(str) ELSE Num(0)
    IN  IF len # Undefined /\ (len.num < min.num \/ len.num > max.num)
        THEN Threw(fieldName \o MustBeBetween \o NumberToString(min.num) \o And
                   \o NumberToString(max.num) \o Characters)
        ELSE Returned(Bool(TRUE))

\* validators.enum; includes compares with SameValueZero.
enum(value, allowedValues, fieldName) ==
    IF ~(\E i \in 1..Len(allowedValues) : allowedValues[i] = value)
    THEN Threw(fieldName \o MustBeOneOf \o Join(allowedValues))
    ELSE Returned(Bool(TRUE))

-----------------------------------------------------------------------------
(* Requests and responses.                                                 *)

Slots == {1, 2}

Idle == [pc |-> "idle", route |-> "none"]
NoResponse == [status |-> 0]
\* res.status(status).json(body)
Response(status, body) == [status |-> status, body |-> body]

\* A slot takes a new request when it handles none; of two such slots the
\* lower one takes it (the slots are interchangeable).
Vacant(s) == reqs[s].pc \in {"idle", "done"}
Free(s) == Vacant(s) /\ \A t \in Slots : t < s => ~Vacant(t)
Done(r) == r.pc = "done"

NoParams == [none |-> TRUE]
NoQuery == [none |-> TRUE]
NoBody == [none |-> TRUE]

\* A request as Express hands it to the first middleware of its route:
\* no identity attached, nothing sent.  next counts how often the
\* middleware passed control on to the route handler, sql holds the
\* parameters of the statement the handler awaits, writes counts the
\* INSERT, UPDATE and DELETE statements it had the store execute, and seen
\* records what the store held for the addressed row when the handler's
\* ownership check ran, and error is the error the handler's catch passed
\* to next, with the NODE_ENV the process ran under.
NoError == [none |-> TRUE]
Request(route, authorization, params, query, body) ==
    [route |-> route, authorization |-> authorization, params |-> params,
     query |-> query, body |-> body,
     user |-> Undefined, next |-> 0, res |-> NoResponse, pc |-> "gate",
     sql |-> NoParams, seen |-> "none", writes |-> 0, error |-> NoError]

\* The Authorization header: absent, or its parts as split(' ') yields them.
\* A part is a word, the empty string, or a JSON Web Token; a token carries
\* whether its signature verifies under jwtSecret, whether it has expired,
\* and its payload.
NoHeader == [present |-> FALSE, parts |-> <<>>]
Header(parts) == [present |-> TRUE, parts |-> parts]
Word == [kind |-> "word"]
EmptyPart == [kind |-> "empty"]
Jwt(signed, expired, payload) ==
    [kind |-> "jwt", signed |-> signed, expired |-> expired, payload |-> payload]

\* authHeader && authHeader.split(' ')[1]
BearerToken(authorization) ==
    IF authorization.present /\ Len(authorization.parts) >= 2
    THEN authorization.parts[2]
    ELSE EmptyPart
\* !token: undefined and '' are falsy.
NoToken(token) == token.kind = "empty"

\* jwt.verify(token, jwtSecret, callback): the callback's (err, user).
\* The library calls back before it returns when the secret is a string.
jwtVerify(token) ==
    IF token.kind = "jwt" /\ token.signed /\ ~token.expired
    THEN [err |-> FALSE, user |-> token.payload]
    ELSE [err |-> TRUE, user |-> Undefined]

\* jwt.sign(payload, jwtSecret, {expiresIn: JWT_EXPIRES_IN})
jwtSign(payload) == Jwt(TRUE, FALSE, payload)

\* authenticateToken reading the payload with jwt.decode, which checks
\* neither the signature nor the expiry.
authenticateTokenDecodeOnly(req) ==
    LET token == BearerToken(req.authorization)
    IN  IF NoToken(token)
        THEN [req EXCEPT !.res = Response(401, [error |-> "Access token required"]),
                         !.pc = "done"]
        ELSE IF token.kind # "jwt"
        THEN [req EXCEPT !.res = Response(403, [error |-> "Invalid or expired token"]),
                         !.pc = "done"]
        ELSE [req EXCEPT !.user = token.payload, !.next = @ + 1, !.pc = "handler"]

authenticateToken(req) ==
    LET token == BearerToken(req.authorization)
        v == jwtVerify(token)
    IN  IF NoToken(token)
        THEN [req EXCEPT !.res = Response(401, [error |-> "Access token required"]),
                         !.pc = "done"]
        ELSE IF v.err
        THEN [req EXCEPT !.res = Response(403, [error |-> "Invalid or expired token"]),
                         !.pc = "done"]
        ELSE [req EXCEPT !.user = v.user, !.next = @ + 1, !.pc = "handler"]

\* optionalAuth calling next() before jwt.verify has called back.
optionalAuthNextFirst(req) == [req EXCEPT !.next = @ + 1, !.pc = "handler"]

optionalAuth(req) ==
    LET token == BearerToken(req.authorization)
        v == jwtVerify(token)
        r == IF ~NoToken(token) /\ ~v.err THEN [req EXCEPT !.user = v.user] ELSE req
    IN  [r EXCEPT !.next = @ + 1, !.pc = "handler"]

\* errorHandler for an error that is no MulterError, NODE_ENV not being
\* development.
InternalError(req) ==
    [req EXCEPT !.res = Response(500, [error |-> "Internal server error"]),
                !.pc = "done"]

\* "development", "production"
development == <<100, 101, 118, 101, 108, 111, 112, 109, 101, 110, 116>>
production == <<112, 114, 111, 100, 117, 99, 116, 105, 111, 110>>
\* Values of process.env.NODE_ENV: unset, development, production, test.
NodeEnvs == {Undefined, Str(development), Str(production), Str(<<116, 101, 115, 116>>)}

\* The Error a rejected pool.execute throws; its message is the driver's.
StoreError == [message |-> [driver |-> TRUE]]

\* errorHandler answering with err.message whatever NODE_ENV is.
errorHandlerVerbose(err, req, env) ==
    [req EXCEPT !.res = Response(500, [error |-> "Internal server error",
                                        message |-> err.message]),
                !.pc = "done",
                !.error = [message |-> err.message, env |-> env]]

\* errorHandler for an error that is no MulterError, under NODE_ENV = env.
\* res.json leaves a key whose value is undefined out of the body.
errorHandler(err, req, env) ==
    [req EXCEPT !.res = Response(500,
                           IF env = Str(development)
                           THEN [error |-> "Internal server error", message |-> err.message]
                           ELSE [error |-> "Internal server error"]),
                !.pc = "done",
                !.error = [message |-> err.message, env |-> env]]

\* The handler positions that await pool.execute.
StoreStatements ==
    {"check", "count", "delete", "find", "insert", "select", "stats", "today", "todos",
     "update", "upsert", "users", "wishes"}

-----------------------------------------------------------------------------
(* The store.  A statement the store refuses makes pool.execute throw.     *)

NoRow == [none |-> TRUE]
MaxTodos == 1
MaxUploads == 1

\* The six sample rows the schema script inserts into gallery_images
\* (categories decoration, tree, gifts, outdoor, food, decoration).
SampleImage(id, category) ==
    [id |-> id, user_id |-> Null, image_url |-> [sample |-> id],
     label |-> [sample |-> id], description |-> Null, category |-> Str(category)]
SampleImages ==
    {SampleImage(1, <<100, 101, 99>>), SampleImage(2, <<116, 114, 101, 101>>),
     SampleImage(3, <<103, 105, 102, 116, 115>>), SampleImage(4, <<111, 117, 116>>),
     SampleImage(5, <<102, 111, 111, 100>>), SampleImage(6, <<100, 101, 99>>)}

\* The five sample rows the schema script inserts into music_playlist,
\* play_count at its default 0.
SampleSong(id) == [id |-> id, title |-> [sample |-> id], play_count |-> 0, sort_order |-> id]
SamplePlaylist == {SampleSong(id) : id \in 1..5}

\* Columns of todos the schema constrains: title NOT NULL, priority
\* ENUM('low','medium','high') (NULL allowed).
TodoColumnsValid(row) ==
    /\ row.title # Null
    /\ row.priority = Null \/ Includes(Priorities, row.priority)
\* Without strict SQL mode the store adjusts an invalid value and goes on:
\* NULL in a NOT NULL column and a non-member of an ENUM become ''.
TodoColumnsAdjusted(row) ==
    [row EXCEPT !.title = IF @ = Null THEN Str(<<>>) ELSE @,
                !.priority = IF @ = Null \/ Includes(Priorities, @) THEN @ ELSE Str(<<>>)]

ZeroStats == [visit_count |-> 0, active_users |-> 0, wishes_count |-> 0, todos_count |-> 0]

\* INSERT ... ON DUPLICATE KEY UPDATE <column> = 1
StatsUpsertOnce(row, column) ==
    IF row = NoRow
    THEN [[visit_count |-> 0, active_users |-> 0, wishes_count |-> 0, todos_count |-> 0]
            EXCEPT ![column] = 1]
    ELSE [row EXCEPT ![column] = 1]

\* INSERT INTO site_stats (stat_date, <column>) VALUES (CURDATE(), 1)
\*   ON DUPLICATE KEY UPDATE <column> = <column> + 1
StatsUpsert(row, column) ==
    IF row = NoRow
    THEN [[visit_count |-> 0, active_users |-> 0, wishes_count |-> 0, todos_count |-> 0]
            EXCEPT ![column] = 1]
    ELSE [row EXCEPT ![column] = @ + 1]

-----------------------------------------------------------------------------
(* Todos routes (server.js), all behind authenticateToken.                 *)

TodoFields == {"title", "description", "completed", "priority", "due_date"}
TodoBody(title, description, completed, priority, due_date) ==
    [title |-> title, description |-> description, completed |-> completed,
     priority |-> priority, due_date |-> due_date]

\* v || null
OrNull(v) == IF Truthy(v) THEN v ELSE Null

\* POST /api/todos, up to the await of the INSERT.
PostTodosHandler(req) ==
    LET title == req.body.title
        priority == IF req.body.priority = Undefined THEN Str(medium) ELSE req.body.priority
    IN  IF ~Truthy(title)
        THEN [req EXCEPT !.res = Response(400, [error |-> "Title is required"]),
                         !.pc = "done"]
        ELSE IF Truthy(priority) /\ ~Includes(Priorities, priority)
        THEN [req EXCEPT !.res = Response(400,
                            [error |-> "Priority must be \"low\", \"medium\", or \"high\""]),
                         !.pc = "done"]
        ELSE [req EXCEPT !.pc = "insert",
                         !.sql = [user_id |-> req.user.id,
                                  title |-> title,
                                  description |-> OrNull(req.body.description),
                                  priority |-> priority,
                                  due_date |-> OrNull(req.body.due_date)]]

\* PatchTodosBuild validating the body before it looks at `existing`.
PatchTodosValidateFirst(req, existing) ==
    LET b == req.body
    IN  IF b.priority # Undefined /\ ~Includes(Priorities, b.priority)
        THEN [req EXCEPT !.res = Response(400,
                            [error |-> "Priority must be \"low\", \"medium\", or \"high\""]),
                         !.pc = "done"]
        ELSE IF \A f \in TodoFields : b[f] = Undefined
        THEN [req EXCEPT !.res = Response(400, [error |-> "No fields to update"]),
                         !.pc = "done"]
        ELSE IF existing = {}
        THEN [req EXCEPT !.res = Response(404, [error |-> "Todo not found"]),
                         !.pc = "done"]
        ELSE [req EXCEPT !.pc = "update",
                         !.sql = [b EXCEPT !.completed =
                                    IF @ = Undefined THEN Undefined
                                    ELSE IF Truthy(@) THEN Num(1) ELSE Num(0)]]

\* PATCH /api/todos/:id issuing the UPDATE whatever the update set holds.
PatchTodosBuildAlways(req, existing) ==
    LET b == req.body
        updates == [title |-> b.title,
                    description |-> b.description,
                    completed |-> IF b.completed = Undefined THEN Undefined
                                  ELSE IF Truthy(b.completed) THEN Num(1) ELSE Num(0),
                    priority |-> b.priority,
                    due_date |-> b.due_date]
    IN  IF existing = {}
        THEN [req EXCEPT !.res = Response(404, [error |-> "Todo not found"]),
                         !.pc = "done"]
        ELSE IF b.priority # Undefined /\ ~Includes(Priorities, b.priority)
        THEN [req EXCEPT !.res = Response(400,
                            [error |-> "Priority must be \"low\", \"medium\", or \"high\""]),
                         !.pc = "done"]
        ELSE [req EXCEPT !.pc = "update", !.sql = updates]

\* PATCH /api/todos/:id after the ownership SELECT returned `existing`.
PatchTodosBuild(req, existing) ==
    LET b == req.body
        updates == [title |-> b.title,
                    description |-> b.description,
                    completed |-> IF b.completed = Undefined THEN Undefined
                                  ELSE IF Truthy(b.completed) THEN Num(1) ELSE Num(0),
                    priority |-> b.priority,
                    due_date |-> b.due_date]
    IN  IF existing = {}
        THEN [req EXCEPT !.res = Response(404, [error |-> "Todo not found"]),
                         !.pc = "done"]
        ELSE IF b.priority # Undefined /\ ~Includes(Priorities, b.priority)
        THEN [req EXCEPT !.res = Response(400,
                            [error |-> "Priority must be \"low\", \"medium\", or \"high\""]),
                         !.pc = "done"]
        ELSE IF \A f \in TodoFields : updates[f] = Undefined
        THEN [req EXCEPT !.res = Response(400, [error |-> "No fields to update"]),
                         !.pc = "done"]
        ELSE [req EXCEPT !.pc = "update", !.sql = updates]

\* DELETE /api/todos/:id after the ownership SELECT returned `existing`.
DeleteTodosDecide(req, existing) ==
    IF existing = {}
    THEN [req EXCEPT !.res = Response(404, [error |-> "Todo not found"]),
                     !.pc = "done"]
    ELSE [req EXCEPT !.pc = "delete"]

\* The ownership SELECT without its user_id condition.
TodosById(id, user_id) == {t \in todos : t.id = id}

\* SELECT id FROM todos WHERE id = ? AND user_id = ?
OwnedTodos(id, user_id) == {t \in todos : t.id = id /\ t.user_id = user_id}

\* What the store holds for todo `id`, seen from identity `user`.
Seen(id, user) ==
    IF \A t \in todos : t.id # id THEN "absent"
    ELSE IF \E t \in todos : t.id = id /\ t.user_id = user.id THEN "own"
    ELSE "other"

\* UPDATE todos SET <the columns of updates> WHERE id = ?
UpdatedTodo(t, updates) ==
    [f \in DOMAIN t |->
        IF f \in TodoFields /\ updates[f] # Undefined THEN updates[f] ELSE t[f]]

\* The columns the todo SELECTs return (user_id is not among them).
TodoView(t) == [f \in (DOMAIN t) \ {"user_id"} |-> t[f]]

\* A finished exchange: the request and its response.  The statement
\* parameters are gone with the handler's frame.
Finished(req) == IF Done(req) THEN [req EXCEPT !.sql = NoParams] ELSE req

\* Rows still to be inserted by the POST requests in flight on `route`.
Inserting(route) == Cardinality({s \in Slots : reqs[s].pc = "insert" /\ reqs[s].route = route})

\* POST /api/todos admitted while fewer than `most` todos were ever stored.
PostTodosUpTo(most, s, authorization, body) ==
    /\ Free(s)
    /\ autoinc.todos + Inserting("POST /api/todos") <= most
    /\ LET req == authenticateToken(
                      Request("POST /api/todos", authorization, NoParams, NoQuery, body))
       IN  reqs' = [reqs EXCEPT ![s] =
                      Finished(IF req.pc = "handler" THEN PostTodosHandler(req) ELSE req)]
    /\ UNCHANGED <<tables, call>>

PostTodos(s, authorization, body) == PostTodosUpTo(MaxTodos, s, authorization, body)

\* The INSERT runs; the handler goes on to the stats statement.
PostTodosInsert(s, strict) ==
    LET req == reqs[s]
        row == [id |-> autoinc.todos, completed |-> Num(0)] @@ req.sql
    IN  /\ req.route = "POST /api/todos" /\ req.pc = "insert"
        /\ IF strict /\ ~TodoColumnsValid(row)
           THEN /\ reqs' = [reqs EXCEPT ![s] = Finished(InternalError(req))]
                /\ UNCHANGED tables
           ELSE /\ todos' = todos \cup {TodoColumnsAdjusted(row)}
                /\ autoinc' = [autoinc EXCEPT !.todos = @ + 1]
                /\ reqs' = [reqs EXCEPT ![s] =
                              [req EXCEPT !.pc = "stats", !.writes = @ + 1,
                                          !.params = [insertId |-> autoinc.todos]]]
                /\ UNCHANGED <<users, wishes, gallery_images, site_stats, music_playlist>>
        /\ UNCHANGED call

\* The stats upsert runs; the handler answers 201.
PostTodosStats(s) ==
    LET req == reqs[s]
    IN  /\ req.route = "POST /api/todos" /\ req.pc = "stats"
        /\ site_stats' = StatsUpsert(site_stats, "todos_count")
        /\ reqs' = [reqs EXCEPT ![s] = Finished(
                      [req EXCEPT !.writes = @ + 1, !.pc = "done",
                                  !.res = Response(201,
                                     [message |-> "Todo created successfully",
                                      todo |-> [id |-> req.params.insertId,
                                                title |-> req.body.title,
                                                description |-> req.body.description,
                                                completed |-> Bool(FALSE),
                                                priority |-> req.sql.priority,
                                                due_date |-> req.body.due_date]])])]
        /\ UNCHANGED <<users, todos, wishes, gallery_images, autoinc, music_playlist, call>>

PatchTodos(s, authorization, id, body) ==
    /\ Free(s)
    /\ LET req == authenticateToken(
                      Request("PATCH /api/todos/:id", authorization, [id |-> id], NoQuery, body))
       IN  reqs' = [reqs EXCEPT ![s] =
                      Finished(IF req.pc = "handler" THEN [req EXCEPT !.pc = "check"] ELSE req)]
    /\ UNCHANGED <<tables, call>>

\* The ownership SELECT runs; the handler validates and builds the UPDATE.
PatchTodosCheck(s) ==
    LET req == reqs[s]
    IN  /\ req.route = "PATCH /api/todos/:id" /\ req.pc = "check"
        /\ reqs' = [reqs EXCEPT ![s] = Finished(
                      PatchTodosBuild([req EXCEPT !.seen = Seen(req.params.id, req.user)],
                                      OwnedTodos(req.params.id, req.user.id)))]
        /\ UNCHANGED <<tables, call>>

\* The UPDATE ... WHERE id = ? runs; the handler goes on to the SELECT.
PatchTodosUpdate(s, strict) ==
    LET req == reqs[s]
        hit == {t \in todos : t.id = req.params.id}
        changed == {UpdatedTodo(t, req.sql) : t \in hit}
    IN  /\ req.route = "PATCH /api/todos/:id" /\ req.pc = "update"
        /\ IF strict /\ \E t \in changed : ~TodoColumnsValid(t)
           THEN /\ reqs' = [reqs EXCEPT ![s] = Finished(InternalError(req))]
                /\ UNCHANGED todos
           ELSE /\ todos' = (todos \ hit) \cup {TodoColumnsAdjusted(t) : t \in changed}
                /\ reqs' = [reqs EXCEPT ![s] =
                              [req EXCEPT !.pc = "select", !.writes = @ + 1]]
        /\ UNCHANGED <<users, wishes, gallery_images, site_stats, autoinc, music_playlist, call>>

\* SELECT ... FROM todos WHERE id = ? runs; the handler answers updated[0].
PatchTodosSelect(s) ==
    LET req == reqs[s]
        updated == {t \in todos : t.id = req.params.id}
    IN  /\ req.route = "PATCH /api/todos/:id" /\ req.pc = "select"
        /\ reqs' = [reqs EXCEPT ![s] = Finished(
                      [req EXCEPT !.pc = "done",
                                  !.res = Response(200,
                                     [message |-> "Todo updated successfully",
                                      todo |-> IF updated = {} THEN Undefined
                                               ELSE TodoView(CHOOSE t \in updated : TRUE)])])]
        /\ UNCHANGED <<tables, call>>

DeleteTodos(s, authorization, id) ==
    /\ Free(s)
    /\ LET req == authenticateToken(
                      Request("DELETE /api/todos/:id", authorization, [id |-> id], NoQuery, NoBody))
       IN  reqs' = [reqs EXCEPT ![s] =
                      Finished(IF req.pc = "handler" THEN [req EXCEPT !.pc = "check"] ELSE req)]
    /\ UNCHANGED <<tables, call>>

\* The ownership SELECT runs.
DeleteTodosCheck(s) ==
    LET req == reqs[s]
    IN  /\ req.route = "DELETE /api/todos/:id" /\ req.pc = "check"
        /\ reqs' = [reqs EXCEPT ![s] = Finished(
                      DeleteTodosDecide([req EXCEPT !.seen = Seen(req.params.id, req.user)],
                                        OwnedTodos(req.params.id, req.user.id)))]
        /\ UNCHANGED <<tables, call>>

\* DELETE FROM todos WHERE id = ? runs; the handler answers 200.
DeleteTodosDelete(s) ==
    LET req == reqs[s]
    IN  /\ req.route = "DELETE /api/todos/:id" /\ req.pc = "delete"
        /\ todos' = {t \in todos : t.id # req.params.id}
        /\ reqs' = [reqs EXCEPT ![s] = Finished(
                      [req EXCEPT !.pc = "done", !.writes = @ + 1,
                                  !.res = Response(200,
                                     [message |-> "Todo deleted successfully"])])]
        /\ UNCHANGED <<users, wishes, gallery_images, site_stats, autoinc, music_playlist, call>>

\* GET /api/todos?completed=&priority=
GetTodos(s, authorization, query) ==
    /\ Free(s)
    /\ LET req == authenticateToken(
                      Request("GET /api/todos", authorization, NoParams, query, NoBody))
       IN  reqs' = [reqs EXCEPT ![s] =
                      Finished(IF req.pc = "handler" THEN [req EXCEPT !.pc = "select"] ELSE req)]
    /\ UNCHANGED <<tables, call>>

\* GET /api/todos selecting without the user_id condition.
GetTodosSelectAll(s) ==
    LET req == reqs[s]
        q == req.query
        rows == {t \in todos :
                    /\ q.completed # Undefined =>
                          t.completed = (IF q.completed = Str(<<116, 114, 117, 101>>)
                                         THEN Num(1) ELSE Num(0))
                    /\ (Truthy(q.priority) /\ Includes(Priorities, q.priority)) =>
                          t.priority = q.priority}
    IN  /\ req.route = "GET /api/todos" /\ req.pc = "select"
        /\ reqs' = [reqs EXCEPT ![s] = Finished(
                      [req EXCEPT !.pc = "done",
                                  !.res = Response(200, [todos |-> {TodoView(t) : t \in rows}])])]
        /\ UNCHANGED <<tables, call>>

\* SELECT ... FROM todos WHERE user_id = ? [AND completed = ?] [AND priority = ?]
GetTodosSelect(s) ==
    LET req == reqs[s]
        q == req.query
        rows == {t \in todos :
                    /\ t.user_id = req.user.id
                    /\ q.completed # Undefined =>
                          t.completed = (IF q.completed = Str(<<116, 114, 117, 101>>)
                                         THEN Num(1) ELSE Num(0))
                    /\ (Truthy(q.priority) /\ Includes(Priorities, q.priority)) =>
                          t.priority = q.priority}
    IN  /\ req.route = "GET /api/todos" /\ req.pc = "select"
        /\ reqs' = [reqs EXCEPT ![s] = Finished(
                      [req EXCEPT !.pc = "done",
                                  !.res = Response(200, [todos |-> {TodoView(t) : t \in rows}])])]
        /\ UNCHANGED <<tables, call>>

-----------------------------------------------------------------------------
(* POST /api/gallery (server.js): authenticateToken, then multer's         *)
(* upload.single('image'), then the handler.                               *)

GalleryBody(label, description, category) ==
    [label |-> label, description |-> description, category |-> category]

\* The multipart part named image: none, an image multer stores, a file
\* its fileFilter refuses, a file over limits.fileSize.
NoFile == [kind |-> "none"]
ImageFile == [kind |-> "image", filename |-> Str(<<105>>)]
TextFile == [kind |-> "refused"]
LargeFile == [kind |-> "large"]

PostGallery(s, authorization, file, body) ==
    /\ Free(s)
    /\ autoinc.gallery_images
         + Cardinality({t \in Slots : reqs[t].route = "POST /api/gallery"
                                       /\ reqs[t].pc \in {"upload", "insert"}})
         <= Cardinality(SampleImages) + MaxUploads
    /\ LET req == authenticateToken(
                      Request("POST /api/gallery", authorization, NoParams, NoQuery, body))
       IN  reqs' = [reqs EXCEPT ![s] =
                      Finished(IF req.pc = "handler"
                               THEN [req EXCEPT !.pc = "upload", !.params = [file |-> file]]
                               ELSE req)]
    /\ UNCHANGED <<tables, call>>

\* multer finishes: it fails the request (errorHandler answers), or sets
\* req.file and calls the handler, which runs up to the await of the INSERT.
PostGalleryUpload(s) ==
    LET req == reqs[s]
        file == req.params.file
        category == IF req.body.category = Undefined THEN Str(general) ELSE req.body.category
    IN  /\ req.route = "POST /api/gallery" /\ req.pc = "upload"
        /\ reqs' = [reqs EXCEPT ![s] = Finished(
              CASE file.kind = "large" ->
                     [req EXCEPT !.res = Response(400, [error |-> "File too large"]),
                                 !.pc = "done"]
                [] file.kind = "refused" -> InternalError(req)
                [] file.kind = "none" ->
                     [req EXCEPT !.res = Response(400, [error |-> "Image file is required"]),
                                 !.pc = "done"]
                [] OTHER ->
                     [req EXCEPT !.pc = "insert",
                                 !.sql = [user_id |-> req.user.id,
                                          image_url |-> file.filename,
                                          label |-> OrNull(req.body.label),
                                          description |-> OrNull(req.body.description),
                                          category |-> category]])]
        /\ UNCHANGED <<tables, call>>

\* The INSERT runs; the handler answers 201.
PostGalleryInsert(s) ==
    LET req == reqs[s]
        row == [id |-> autoinc.gallery_images] @@ req.sql
    IN  /\ req.route = "POST /api/gallery" /\ req.pc = "insert"
        /\ gallery_images' = gallery_images \cup {row}
        /\ autoinc' = [autoinc EXCEPT !.gallery_images = @ + 1]
        /\ reqs' = [reqs EXCEPT ![s] = Finished(
                      [req EXCEPT !.pc = "done", !.writes = @ + 1,
                                  !.res = Response(201,
                                     [message |-> "Image uploaded successfully",
                                      image |-> [id |-> row.id,
                                                 image_url |-> row.image_url,
                                                 label |-> req.body.label,
                                                 description |-> req.body.description,
                                                 category |-> row.category]])])]
        /\ UNCHANGED <<users, todos, wishes, site_stats, music_playlist, call>>

-----------------------------------------------------------------------------
(* Wishes routes and GET /api/gallery (server.js).                         *)

MaxWishes == 2

WishBody(name, content, category, is_anonymous) ==
    [name |-> name, content |-> content, category |-> category,
     is_anonymous |-> is_anonymous]

\* POST /api/wishes, up to the await of the INSERT.
PostWishesHandler(req) ==
    LET b == req.body
        category == IF b.category = Undefined THEN Str(nice) ELSE b.category
        is_anonymous == IF b.is_anonymous = Undefined THEN Bool(FALSE) ELSE b.is_anonymous
        userId == IF Truthy(req.user) THEN req.user.id ELSE Null
    IN  IF ~Truthy(b.name) \/ ~Truthy(b.content)
        THEN [req EXCEPT !.res = Response(400, [error |-> "Name and content are required"]),
                         !.pc = "done"]
        ELSE IF ~Includes(Categories, category)
        THEN [req EXCEPT !.res = Response(400,
                            [error |-> "Category must be \"nice\" or \"naughty\""]),
                         !.pc = "done"]
        ELSE [req EXCEPT !.pc = "insert",
                         !.sql = [user_id |-> userId,
                                  name |-> b.name,
                                  content |-> b.content,
                                  category |-> category,
                                  is_anonymous |-> IF Truthy(is_anonymous)
                                                   THEN Num(1) ELSE Num(0)]]

PostWishes(s, authorization, body) ==
    /\ Free(s)
    /\ autoinc.wishes + Inserting("POST /api/wishes") <= MaxWishes
    /\ LET req == optionalAuth(
                      Request("POST /api/wishes", authorization, NoParams, NoQuery, body))
       IN  reqs' = [reqs EXCEPT ![s] = Finished(PostWishesHandler(req))]
    /\ UNCHANGED <<tables, call>>

\* The INSERT of POST /api/wishes as REPLACE over the whole table.
PostWishesInsertReplace(s) ==
    LET req == reqs[s]
        row == [id |-> autoinc.wishes] @@ req.sql
    IN  /\ req.route = "POST /api/wishes" /\ req.pc = "insert"
        /\ wishes' = {row}
        /\ autoinc' = [autoinc EXCEPT !.wishes = @ + 1]
        /\ reqs' = [reqs EXCEPT ![s] =
                      [req EXCEPT !.pc = "stats", !.writes = @ + 1,
                                  !.params = [insertId |-> row.id]]]
        /\ UNCHANGED <<users, todos, gallery_images, site_stats, music_playlist, call>>

\* The INSERT runs; the handler goes on to the stats statement.
PostWishesInsert(s) ==
    LET req == reqs[s]
        row == [id |-> autoinc.wishes] @@ req.sql
    IN  /\ req.route = "POST /api/wishes" /\ req.pc = "insert"
        /\ wishes' = wishes \cup {row}
        /\ autoinc' = [autoinc EXCEPT !.wishes = @ + 1]
        /\ reqs' = [reqs EXCEPT ![s] =
                      [req EXCEPT !.pc = "stats", !.writes = @ + 1,
                                  !.params = [insertId |-> row.id]]]
        /\ UNCHANGED <<users, todos, gallery_images, site_stats, music_playlist, call>>

\* POST /api/wishes counting the wish in todos_count.
PostWishesStatsTodos(s) ==
    LET req == reqs[s]
    IN  /\ req.route = "POST /api/wishes" /\ req.pc = "stats"
        /\ site_stats' = StatsUpsert(site_stats, "todos_count")
        /\ reqs' = [reqs EXCEPT ![s] = Finished(
                      [req EXCEPT !.writes = @ + 1, !.pc = "done",
                                  !.res = Response(201,
                                     [message |-> "Wish created successfully",
                                      wish |-> [id |-> req.params.insertId,
                                                name |-> req.body.name,
                                                content |-> req.body.content,
                                                category |-> req.sql.category,
                                                is_anonymous |->
                                                   IF req.body.is_anonymous = Undefined
                                                   THEN Bool(FALSE)
                                                   ELSE req.body.is_anonymous]])])]
        /\ UNCHANGED <<users, todos, wishes, gallery_images, autoinc, music_playlist, call>>

\* The stats upsert runs; the handler answers 201.
PostWishesStats(s) ==
    LET req == reqs[s]
    IN  /\ req.route = "POST /api/wishes" /\ req.pc = "stats"
        /\ site_stats' = StatsUpsert(site_stats, "wishes_count")
        /\ reqs' = [reqs EXCEPT ![s] = Finished(
                      [req EXCEPT !.writes = @ + 1, !.pc = "done",
                                  !.res = Response(201,
                                     [message |-> "Wish created successfully",
                                      wish |-> [id |-> req.params.insertId,
                                                name |-> req.body.name,
                                                content |-> req.body.content,
                                                category |-> req.sql.category,
                                                is_anonymous |->
                                                   IF req.body.is_anonymous = Undefined
                                                   THEN Bool(FALSE)
                                                   ELSE req.body.is_anonymous]])])]
        /\ UNCHANGED <<users, todos, wishes, gallery_images, autoinc, music_playlist, call>>

ListQuery(category, page, limit) == [category |-> category, page |-> page, limit |-> limit]

\* The listing handlers, up to the await of the row SELECT:
\*   const { category, page = 1, limit = 20 } = req.query;
\*   const offset = (parseInt(page) - 1) * parseInt(limit);
\*   params.push(parseInt(limit), offset);
ListHandler(req) ==
    LET page == IF req.query.page = Undefined THEN Num(1) ELSE req.query.page
        limit == IF req.query.limit = Undefined THEN Num(20) ELSE req.query.limit
        offset == Times(Minus1(parseInt(page)), parseInt(limit))
    IN  [req EXCEPT !.pc = "select",
                    !.sql = [page |-> parseInt(page), limit |-> parseInt(limit),
                             offset |-> offset]]

\* ORDER BY created_at DESC LIMIT ? OFFSET ?: the rows ranked offset+1 ..
\* offset+limit, newest (highest id) first.
PageOf(rows, limit, offset) ==
    {r \in rows :
        LET rank == Cardinality({x \in rows : x.id > r.id}) + 1
        IN  rank > offset /\ rank <= offset + limit}

\* The store refuses LIMIT and OFFSET arguments that are no integers >= 0.
LimitOffsetValid(sql) ==
    /\ IsInt(sql.limit) /\ sql.limit.num >= 0
    /\ IsInt(sql.offset) /\ sql.offset.num >= 0

\* GET /api/wishes filters on category only when it is nice or naughty.
WishFilter(category) == Truthy(category) /\ Includes(Categories, category)
\* GET /api/gallery filters on any category given.
GalleryFilter(category) == Truthy(category)

Matching(rows, filtered, category) ==
    IF filtered THEN {r \in rows : r.category = category} ELSE rows

\* The pagination block of a listing response.
PaginationOf(sql, total) ==
    [page |-> sql.page, limit |-> sql.limit, total |-> Num(total),
     totalPages |-> MathCeilDiv(Num(total), sql.limit)]

GetWishes(s, query) ==
    /\ Free(s)
    /\ reqs' = [reqs EXCEPT ![s] =
                  ListHandler([Request("GET /api/wishes", NoHeader, NoParams, query, NoBody)
                                 EXCEPT !.next = 1])]
    /\ UNCHANGED <<tables, call>>

GetGallery(s, query) ==
    /\ Free(s)
    /\ reqs' = [reqs EXCEPT ![s] =
                  ListHandler([Request("GET /api/gallery", NoHeader, NoParams, query, NoBody)
                                 EXCEPT !.next = 1])]
    /\ UNCHANGED <<tables, call>>

\* The row SELECT runs: refused, or its rows are kept and the handler
\* goes on to the COUNT.
ListSelect(s) ==
    LET req == reqs[s]
        isWishes == req.route = "GET /api/wishes"
        table == IF isWishes THEN wishes ELSE gallery_images
        filtered == IF isWishes THEN WishFilter(req.query.category)
                    ELSE GalleryFilter(req.query.category)
        rows == Matching(table, filtered, req.query.category)
    IN  /\ req.route \in {"GET /api/wishes", "GET /api/gallery"} /\ req.pc = "select"
        /\ reqs' = [reqs EXCEPT ![s] =
                      IF ~LimitOffsetValid(req.sql)
                      THEN InternalError(req)
                      ELSE [req EXCEPT !.pc = "count",
                                       !.params = [rows |-> {r.id : r \in
                                           PageOf(rows, req.sql.limit.num, req.sql.offset.num)}]]]
        /\ UNCHANGED <<tables, call>>

\* The COUNT runs; the handler answers the rows and the pagination block.
ListCount(s) ==
    LET req == reqs[s]
        isWishes == req.route = "GET /api/wishes"
        table == IF isWishes THEN wishes ELSE gallery_images
        filtered == IF isWishes THEN WishFilter(req.query.category)
                    ELSE GalleryFilter(req.query.category)
        total == Cardinality(Matching(table, filtered, req.query.category))
    IN  /\ req.route \in {"GET /api/wishes", "GET /api/gallery"} /\ req.pc = "count"
        /\ reqs' = [reqs EXCEPT ![s] =
                      [req EXCEPT !.pc = "done",
                                  !.res = Response(200,
                                     [rows |-> req.params.rows,
                                      pagination |-> PaginationOf(req.sql, total)])]]
        /\ UNCHANGED <<tables, call>>

-----------------------------------------------------------------------------
(* POST /api/auth/register (server.js).                                    *)

MaxUsers == 2
MinPasswordLength == 6

RegisterBody(username, email, password) ==
    [username |-> username, email |-> email, password |-> password]

\* utf8mb4_unicode_ci compares without regard to letter case.
Fold(str) == [i \in 1..Len(str) |-> IF str[i] \in 65..90 THEN str[i] + 32 ELSE str[i]]
SqlEq(a, b) == a.type = "string" /\ b.type = "string" /\ Fold(a.str) = Fold(b.str)

\* SELECT id FROM users WHERE username = ? on its own.
ExistingByUsername(username, email) == {u \in users : SqlEq(u.username, username)}

\* SELECT id FROM users WHERE username = ? OR email = ?
ExistingUsers(username, email) ==
    {u \in users : SqlEq(u.username, username) \/ SqlEq(u.email, email)}

\* password.length < 6; only a string has a length.
PasswordTooShort(password) ==
    password.type = "string" /\ Len(password.str) < MinPasswordLength

\* bcrypt.hash(password, SALT_ROUNDS)
bcryptHash(password) == [hash |-> password]

\* The handler up to the await of the existence SELECT.
PostRegisterHandler(req) ==
    LET b == req.body
    IN  IF ~Truthy(b.username) \/ ~Truthy(b.email) \/ ~Truthy(b.password)
        THEN [req EXCEPT !.res = Response(400,
                            [error |-> "Username, email, and password are required"]),
                         !.pc = "done"]
        ELSE IF PasswordTooShort(b.password)
        THEN [req EXCEPT !.res = Response(400,
                            [error |-> "Password must be at least 6 characters"]),
                         !.pc = "done"]
        ELSE [req EXCEPT !.pc = "check",
                         !.sql = [username |-> b.username, email |-> b.email]]

Registering == Cardinality({s \in Slots : reqs[s].route = "POST /api/auth/register"
                                          /\ reqs[s].pc \in {"check", "hash", "insert"}})

\* A registration arrives.  seen records whether a user with the request's
\* username or email was stored when it arrived.
PostRegister(s, body) ==
    /\ Free(s)
    /\ autoinc.users + Registering <= MaxUsers
    /\ LET req == [Request("POST /api/auth/register", NoHeader, NoParams, NoQuery, body)
                     EXCEPT !.next = 1,
                            !.seen = IF \E u \in users : \/ u.username = body.username
                                                         \/ u.email = body.email
                                     THEN "stored" ELSE "absent"]
       IN  reqs' = [reqs EXCEPT ![s] = Finished(PostRegisterHandler(req))]
    /\ UNCHANGED <<tables, call>>

\* The existence SELECT runs: 409, or the handler goes on to hash.
PostRegisterCheck(s) ==
    LET req == reqs[s]
        existing == ExistingUsers(req.sql.username, req.sql.email)
    IN  /\ req.route = "POST /api/auth/register" /\ req.pc = "check"
        /\ reqs' = [reqs EXCEPT ![s] =
                      IF existing # {}
                      THEN Finished([req EXCEPT !.res = Response(409,
                                        [error |-> "Username or email already exists"]),
                                                !.pc = "done"])
                      ELSE [req EXCEPT !.pc = "hash"]]
        /\ UNCHANGED <<tables, call>>

\* bcrypt.hash resolves; the handler issues the INSERT.
PostRegisterHash(s) ==
    LET req == reqs[s]
    IN  /\ req.route = "POST /api/auth/register" /\ req.pc = "hash"
        /\ reqs' = [reqs EXCEPT ![s] =
                      IF req.body.password.type # "string"
                      THEN Finished(InternalError(req))
                      ELSE [req EXCEPT !.pc = "insert",
                                       !.sql = [username |-> req.body.username,
                                                email |-> req.body.email,
                                                password_hash |->
                                                    bcryptHash(req.body.password)]]]
        /\ UNCHANGED <<tables, call>>

\* The INSERT runs.  The UNIQUE keys on username and email refuse a row
\* that repeats either; the handler signs a token for the row stored and
\* answers 201.  The id is used up either way.
PostRegisterInsert(s) ==
    LET req == reqs[s]
        row == [id |-> autoinc.users] @@ req.sql
        identity == [id |-> row.id, username |-> row.username, email |-> row.email]
    IN  /\ req.route = "POST /api/auth/register" /\ req.pc = "insert"
        /\ autoinc' = [autoinc EXCEPT !.users = @ + 1]
        /\ IF ExistingUsers(row.username, row.email) # {}
           THEN /\ reqs' = [reqs EXCEPT ![s] = Finished(InternalError(req))]
                /\ UNCHANGED users
           ELSE /\ users' = users \cup {row}
                /\ reqs' = [reqs EXCEPT ![s] = Finished(
                              [req EXCEPT !.writes = @ + 1, !.pc = "done",
                                          !.res = Response(201,
                                             [message |-> "User registered successfully",
                                              user |-> identity,
                                              token |-> jwtSign(identity)])])]
        /\ UNCHANGED <<todos, wishes, gallery_images, site_stats, music_playlist, call>>

-----------------------------------------------------------------------------
(* POST /api/auth/login (server.js).                                       *)

LoginBody(username, password) == [username |-> username, password |-> password]

\* SELECT id, username, email, password_hash, avatar FROM users
\*   WHERE username = ? OR email = ?   with [username, username].
\* No statement of the server writes avatar: it is NULL in every row.
LoginUsers(username) ==
    {[avatar |-> Null] @@ u : u \in ExistingUsers(username, username)}

\* bcrypt.compare(password, hash): the arguments must be strings.
bcryptCompare(password, hash) == hash = bcryptHash(password)

\* The user object of the login response carrying the whole row.
LoginUserRow(user) == user

\* The user object of the login response.
LoginUser(user) ==
    [id |-> user.id, username |-> user.username, email |-> user.email,
     avatar |-> user.avatar]

\* The handler up to the await of the SELECT.
PostLoginHandler(req) ==
    IF ~Truthy(req.body.username) \/ ~Truthy(req.body.password)
    THEN [req EXCEPT !.res = Response(400, [error |-> "Username and password are required"]),
                     !.pc = "done"]
    ELSE [req EXCEPT !.pc = "find", !.sql = [username |-> req.body.username]]

PostLogin(s, body) ==
    /\ Free(s)
    /\ reqs' = [reqs EXCEPT ![s] = Finished(PostLoginHandler(
                  [Request("POST /api/auth/login", NoHeader, NoParams, NoQuery, body)
                     EXCEPT !.next = 1]))]
    /\ UNCHANGED <<tables, call>>

\* The SELECT runs: 401 when it finds no user, else the handler takes the
\* first row returned and awaits bcrypt.compare.
PostLoginFind(s) ==
    LET req == reqs[s]
        found == LoginUsers(req.sql.username)
    IN  /\ req.route = "POST /api/auth/login" /\ req.pc = "find"
        /\ IF found = {}
           THEN reqs' = [reqs EXCEPT ![s] = Finished(
                            [req EXCEPT !.res = Response(401, [error |-> "Invalid credentials"]),
                                        !.pc = "done"])]
           ELSE \E user \in found :
                    reqs' = [reqs EXCEPT ![s] = [req EXCEPT !.pc = "compare",
                                                            !.sql = [user |-> user]]]
        /\ UNCHANGED <<tables, call>>

\* bcrypt.compare resolves or rejects; the handler answers.
PostLoginCompare(s) ==
    LET req == reqs[s]
        user == req.sql.user
        identity == [id |-> user.id, username |-> user.username, email |-> user.email]
    IN  /\ req.route = "POST /api/auth/login" /\ req.pc = "compare"
        /\ reqs' = [reqs EXCEPT ![s] = Finished(
                      IF req.body.password.type # "string"
                      THEN InternalError(req)
                      ELSE IF ~bcryptCompare(req.body.password, user.password_hash)
                      THEN [req EXCEPT !.res = Response(401, [error |-> "Invalid credentials"]),
                                       !.pc = "done"]
                      ELSE [req EXCEPT !.pc = "done",
                                       !.res = Response(200,
                                          [message |-> "Login successful",
                                           user |-> LoginUser(user),
                                           token |-> jwtSign(identity)])])]
        /\ UNCHANGED <<tables, call>>

-----------------------------------------------------------------------------
(* Music routes (server.js).                                               *)

MaxPlays == 2

SongParams(id) == [id |-> id]
\* The play_count of the song with that id.
PlayCount(playlist, id) == (CHOOSE m \in playlist : m.id = id).play_count

GetMusic(s) ==
    /\ Free(s)
    /\ reqs' = [reqs EXCEPT ![s] =
                  [Request("GET /api/music", NoHeader, NoParams, NoQuery, NoBody)
                     EXCEPT !.next = 1, !.pc = "select"]]
    /\ UNCHANGED <<tables, call>>

\* SELECT id, title, ..., play_count FROM music_playlist ORDER BY sort_order
GetMusicSelect(s) ==
    LET req == reqs[s]
    IN  /\ req.route = "GET /api/music" /\ req.pc = "select"
        /\ reqs' = [reqs EXCEPT ![s] = Finished(
                      [req EXCEPT !.pc = "done",
                                  !.res = Response(200, [songs |-> music_playlist])])]
        /\ UNCHANGED <<tables, call>>

PostMusicPlay(s, id) ==
    /\ Free(s)
    /\ \A m \in music_playlist : m.play_count < MaxPlays
    /\ reqs' = [reqs EXCEPT ![s] =
                  [Request("POST /api/music/:id/play", NoHeader, SongParams(id), NoQuery, NoBody)
                     EXCEPT !.next = 1, !.pc = "check", !.sql = [id |-> id]]]
    /\ UNCHANGED <<tables, call>>

\* SELECT id FROM music_playlist WHERE id = ?: 404 when no row came back.
PostMusicPlayCheck(s) ==
    LET req == reqs[s]
        existing == {m \in music_playlist : m.id = req.sql.id}
    IN  /\ req.route = "POST /api/music/:id/play" /\ req.pc = "check"
        /\ reqs' = [reqs EXCEPT ![s] = Finished(
                      IF existing = {}
                      THEN [req EXCEPT !.pc = "done", !.seen = "absent",
                                       !.res = Response(404, [error |-> "Song not found"])]
                      ELSE [req EXCEPT !.pc = "update", !.seen = "stored"])]
        /\ UNCHANGED <<tables, call>>

\* UPDATE music_playlist SET play_count = play_count + 1 over every row.
PostMusicPlayUpdateAll(s) ==
    LET req == reqs[s]
    IN  /\ req.route = "POST /api/music/:id/play" /\ req.pc = "update"
        /\ music_playlist' = {[m EXCEPT !.play_count = @ + 1] : m \in music_playlist}
        /\ reqs' = [reqs EXCEPT ![s] = Finished(
                      [req EXCEPT !.pc = "done", !.writes = @ + 1,
                                  !.res = Response(200, [message |-> "Play count incremented"])])]
        /\ UNCHANGED <<users, todos, wishes, gallery_images, site_stats, autoinc, call>>

\* UPDATE music_playlist SET play_count = play_count + 1 WHERE id = ?
PostMusicPlayUpdate(s) ==
    LET req == reqs[s]
    IN  /\ req.route = "POST /api/music/:id/play" /\ req.pc = "update"
        /\ music_playlist' = {IF m.id = req.sql.id THEN [m EXCEPT !.play_count = @ + 1] ELSE m :
                                 m \in music_playlist}
        /\ reqs' = [reqs EXCEPT ![s] = Finished(
                      [req EXCEPT !.pc = "done", !.writes = @ + 1,
                                  !.res = Response(200, [message |-> "Play count incremented"])])]
        /\ UNCHANGED <<users, todos, wishes, gallery_images, site_stats, autoinc, call>>

-----------------------------------------------------------------------------
(* Stats routes and GET /api/timeline (server.js).                         *)

MaxVisits == 3

PostStatsVisit(s) ==
    /\ Free(s)
    /\ site_stats # NoRow =>
          site_stats.visit_count
            + Cardinality({t \in Slots : reqs[t].route = "POST /api/stats/visit"
                                          /\ reqs[t].pc = "upsert"}) < MaxVisits
    /\ reqs' = [reqs EXCEPT ![s] =
                  [Request("POST /api/stats/visit", NoHeader, NoParams, NoQuery, NoBody)
                     EXCEPT !.next = 1, !.pc = "upsert"]]
    /\ UNCHANGED <<tables, call>>

\* INSERT INTO site_stats (stat_date, visit_count) VALUES (CURDATE(), 1)
\*   ON DUPLICATE KEY UPDATE visit_count = visit_count + 1
PostStatsVisitUpsert(s) ==
    LET req == reqs[s]
    IN  /\ req.route = "POST /api/stats/visit" /\ req.pc = "upsert"
        /\ site_stats' = StatsUpsert(site_stats, "visit_count")
        /\ reqs' = [reqs EXCEPT ![s] = Finished(
                      [req EXCEPT !.pc = "done", !.writes = @ + 1,
                                  !.res = Response(200, [message |-> "Visit recorded"])])]
        /\ UNCHANGED <<users, todos, wishes, gallery_images, music_playlist, autoinc, call>>

GetStats(s) ==
    /\ Free(s)
    /\ reqs' = [reqs EXCEPT ![s] =
                  [Request("GET /api/stats", NoHeader, NoParams, NoQuery, NoBody)
                     EXCEPT !.next = 1, !.pc = "today"]]
    /\ UNCHANGED <<tables, call>>

\* todayStats[0] || {visit_count: 0, active_users: 0, wishes_count: 0, todos_count: 0}
TodayStats(row) == IF row = NoRow THEN ZeroStats ELSE row

\* The four SELECTs of GET /api/stats run one after the other: today's
\* row, then the counts of wishes, todos and users; the last one answers.
GetStatsSelect(s) ==
    LET req == reqs[s]
        got == IF req.pc = "today" THEN [today |-> TodayStats(site_stats)]
               ELSE IF req.pc = "wishes" THEN req.params @@ [wishes |-> Cardinality(wishes)]
               ELSE IF req.pc = "todos" THEN req.params @@ [todos |-> Cardinality(todos)]
               ELSE req.params @@ [users |-> Cardinality(users)]
    IN  /\ req.route = "GET /api/stats" /\ req.pc \in {"today", "wishes", "todos", "users"}
        /\ reqs' = [reqs EXCEPT ![s] = Finished(
                      IF req.pc = "users"
                      THEN [req EXCEPT !.pc = "done", !.params = NoParams,
                               !.res = Response(200,
                                  [today |-> [visits |-> got.today.visit_count,
                                              activeUsers |-> got.today.active_users,
                                              newWishes |-> got.today.wishes_count,
                                              newTodos |-> got.today.todos_count],
                                   total |-> [wishes |-> got.wishes, todos |-> got.todos,
                                              users |-> got.users]])]
                      ELSE [req EXCEPT !.params = got,
                               !.pc = CASE req.pc = "today" -> "wishes"
                                        [] req.pc = "wishes" -> "todos"
                                        [] req.pc = "todos" -> "users"])]
        /\ UNCHANGED <<tables, call>>

\* The four sample rows the schema script inserts into timeline_events; no
\* statement of the server writes that table.
SampleEvents == {[id |-> id, sort_order |-> id] : id \in 1..4}

GetTimeline(s) ==
    /\ Free(s)
    /\ reqs' = [reqs EXCEPT ![s] =
                  [Request("GET /api/timeline", NoHeader, NoParams, NoQuery, NoBody)
                     EXCEPT !.next = 1, !.pc = "select"]]
    /\ UNCHANGED <<tables, call>>

\* SELECT id, title, event_date, meta, description FROM timeline_events
GetTimelineSelect(s) ==
    LET req == reqs[s]
    IN  /\ req.route = "GET /api/timeline" /\ req.pc = "select"
        /\ reqs' = [reqs EXCEPT ![s] = Finished(
                      [req EXCEPT !.pc = "done",
                                  !.res = Response(200, [events |-> SampleEvents])])]
        /\ UNCHANGED <<tables, call>>

-----------------------------------------------------------------------------
(* A failing store.                                                        *)

\* The pool.execute a handler awaits rejects (connection lost, timeout,
\* deadlock): the statement has no effect, the handler's catch passes the
\* error to next and errorHandler answers.
ExecuteFails(s, env) ==
    LET req == reqs[s]
    IN  /\ req.pc \in StoreStatements
        /\ reqs' = [reqs EXCEPT ![s] = Finished(errorHandler(StoreError, req, env))]
        /\ UNCHANGED <<tables, call>>

-----------------------------------------------------------------------------
(* transformers/index.js: input shapers, and the example routes built on  *)
(* them.  A shaped object is a record whose domain is its set of keys.     *)

\* inputTransformers.todo: title is always set; each other key is set
\* when the body has it.
inputTodo(data) ==
    LET keys == {"title"} \cup {f \in TodoFields : data[f] # Undefined}
    IN  [f \in keys |->
            CASE f = "title" -> truncate(data.title, Num(255))
              [] f = "description" -> truncate(data.description, Num(1000))
              [] f = "priority" -> IF Includes(Priorities, data.priority)
                                   THEN data.priority ELSE Str(medium)
              [] f = "due_date" -> data.due_date
              [] f = "completed" -> toBool(data.completed)]

\* The update set the example PATCH /api/todos/:id builds from a shaped
\* body: every entry whose value is not undefined, completed as 1 or 0.
\* A field the UPDATE does not set is undefined here.
ExamplePatchUpdates(todoData) ==
    [f \in TodoFields |->
        IF f \notin DOMAIN todoData \/ todoData[f] = Undefined THEN Undefined
        ELSE IF f = "completed" THEN (IF Truthy(todoData[f]) THEN Num(1) ELSE Num(0))
        ELSE todoData[f]]

\* inputTransformers.userRegistration with the password shaped like the
\* other fields.
inputUserRegistrationShaped(data) ==
    [username |-> truncate(data.username, Num(50)),
     email |-> Str(toLowerCase(truncate(data.email, Num(100)).str)),
     password |-> truncate(data.password, Num(100))]

\* inputTransformers.userRegistration
inputUserRegistration(data) ==
    [username |-> truncate(data.username, Num(50)),
     email |-> Str(toLowerCase(truncate(data.email, Num(100)).str)),
     password |-> data.password]

\* inputTransformers.wish
inputWish(data) ==
    [name |-> truncate(data.name, Num(100)),
     content |-> truncate(data.content, Num(1000)),
     category |-> IF Includes(Categories, data.category) THEN data.category ELSE Str(nice),
     is_anonymous |-> toBool(data.is_anonymous)]

\* dateTransformers.toISO: null for a missing date, the ISO string of a
\* Date ([date |-> d]).
\* Every other value of this model ("abc") is no date: null as well.
toISO(date) ==
    IF ~Truthy(date) THEN Null
    ELSE IF "date" \in DOMAIN date THEN [iso |-> date.date]
    ELSE Null

\* outputTransformers.user
outputUser(userData) ==
    IF ~Truthy(userData) THEN Null
    ELSE [id |-> userData.id,
          username |-> userData.username,
          email |-> userData.email,
          avatar |-> IF Truthy(userData.avatar) THEN userData.avatar ELSE Null,
          created_at |-> toISO(userData.created_at)]

\* A stored todo of user 1, titled "a".
StoredTodo ==
    [id |-> 1, user_id |-> 1, title |-> Str(<<97>>), description |-> Null,
     completed |-> Num(0), priority |-> Str(medium), due_date |-> Null]

-----------------------------------------------------------------------------
(* Initial state of the server: the schema's tables after the schema       *)
(* script ran (no users, todos or wishes; today's site_stats row at 0),    *)
(* no request in flight, no transformer function applied yet.              *)

NoCall == [fn |-> "none"]

Init ==
    /\ reqs = [s \in Slots |-> Idle]
    /\ users = {}
    /\ todos = {}
    /\ wishes = {}
    /\ gallery_images = SampleImages
    /\ music_playlist = SamplePlaylist
    /\ site_stats \in {NoRow, ZeroStats}
    /\ autoinc = [users |-> 1, todos |-> 1, wishes |-> 1,
                  gallery_images |-> Cardinality(SampleImages) + 1]
    /\ call = NoCall

\* Two accounts registered earlier (users a and b), nothing else stored:
\* the state the todo routes start from.
Registered ==
    {[id |-> 1, username |-> Str(<<97>>), email |-> Str(<<97, 64, 120>>),
      password_hash |-> [hash |-> Str(<<112, 97, 115, 115, 119, 49>>)]],
     [id |-> 2, username |-> Str(<<98>>), email |-> Str(<<98, 64, 120>>),
      password_hash |-> [hash |-> Str(<<112, 97, 115, 115, 119, 50>>)]]}

InitRegistered ==
    /\ reqs = [s \in Slots |-> Idle]
    /\ users = Registered
    /\ todos = {}
    /\ wishes = {}
    /\ gallery_images = SampleImages
    /\ music_playlist = SamplePlaylist
    /\ site_stats = ZeroStats
    /\ autoinc = [users |-> Cardinality(Registered) + 1, todos |-> 1, wishes |-> 1,
                  gallery_images |-> Cardinality(SampleImages) + 1]
    /\ call = NoCall

\* The payload register and login sign for a user.
Identity(u) == [id |-> u.id, username |-> u.username, email |-> u.email]

\* Authorization headers carrying a token the server issued and that is
\* still valid, one per registered user.
ValidHeaders == {Header(<<Word, jwtSign(Identity(u))>>) : u \in users}
\* Headers with no token: no header, "Bearer", "Bearer ".
MissingHeaders == {NoHeader, Header(<<Word>>), Header(<<Word, EmptyPart>>)}
\* Headers whose token does not verify: not a token, a forged signature,
\* an expired token.
InvalidHeaders ==
    {Header(<<Word, Word>>)}
    \cup {Header(<<Word, Jwt(FALSE, FALSE, Identity(u))>>) : u \in users}
    \cup {Header(<<Word, Jwt(TRUE, TRUE, Identity(u))>>) : u \in users}

-----------------------------------------------------------------------------
(* SpecTodos: the todo routes, requested by the registered users.          *)

TodoIds == 1..MaxTodos

\* Bodies of POST /api/todos: {}, {title:"a", description:"d",
\* priority:"high", due_date:"d"}, {title:"a", priority:"x"},
\* {title:"a", priority:null}.
PostTodoBodies ==
    {TodoBody(Undefined, Undefined, Undefined, Undefined, Undefined),
     TodoBody(Str(<<97>>), Str(<<100>>), Undefined, Str(high), Str(<<100>>)),
     TodoBody(Str(<<97>>), Undefined, Undefined, Str(<<120>>), Undefined),
     TodoBody(Str(<<97>>), Undefined, Undefined, Null, Undefined)}

\* Bodies of PATCH /api/todos/:id: {}, {title:"b", completed:true},
\* {priority:"low"}, {title:"b", priority:"x"}.
PatchTodoBodies ==
    {TodoBody(Undefined, Undefined, Undefined, Undefined, Undefined),
     TodoBody(Str(<<98>>), Undefined, Bool(TRUE), Undefined, Undefined),
     TodoBody(Undefined, Undefined, Undefined, Str(low), Undefined),
     TodoBody(Str(<<98>>), Undefined, Undefined, Str(<<120>>), Undefined)}

NextTodos ==
    \E s \in Slots :
        \/ \E a \in ValidHeaders, b \in PostTodoBodies : PostTodos(s, a, b)
        \/ \E strict \in BOOLEAN : PostTodosInsert(s, strict)
        \/ PostTodosStats(s)
        \/ \E a \in ValidHeaders, id \in TodoIds, b \in PatchTodoBodies : PatchTodos(s, a, id, b)
        \/ PatchTodosCheck(s)
        \/ \E strict \in BOOLEAN : PatchTodosUpdate(s, strict)
        \/ PatchTodosSelect(s)
        \/ \E a \in ValidHeaders, id \in TodoIds : DeleteTodos(s, a, id)
        \/ DeleteTodosCheck(s)
        \/ DeleteTodosDelete(s)

SpecTodos == InitRegistered /\ [][NextTodos]_vars

-----------------------------------------------------------------------------
(* SpecGate: every route behind authenticateToken, requested with every    *)
(* kind of Authorization header and one body per route.                    *)

GateHeaders == MissingHeaders \cup InvalidHeaders \cup ValidHeaders
\* {title:"a"}
GatePostBody == TodoBody(Str(<<97>>), Undefined, Undefined, Undefined, Undefined)
\* {title:"b"}
GatePatchBody == TodoBody(Str(<<98>>), Undefined, Undefined, Undefined, Undefined)
\* no filter
GateQueries == {[completed |-> Undefined, priority |-> Undefined]}
GateFiles == {NoFile, ImageFile, TextFile}

NextGate ==
    \E s \in Slots :
        \/ \E a \in GateHeaders : PostTodos(s, a, GatePostBody)
        \/ \E strict \in BOOLEAN : PostTodosInsert(s, strict)
        \/ PostTodosStats(s)
        \/ \E a \in GateHeaders, id \in TodoIds : PatchTodos(s, a, id, GatePatchBody)
        \/ PatchTodosCheck(s)
        \/ \E strict \in BOOLEAN : PatchTodosUpdate(s, strict)
        \/ PatchTodosSelect(s)
        \/ \E a \in GateHeaders, id \in TodoIds : DeleteTodos(s, a, id)
        \/ DeleteTodosCheck(s)
        \/ DeleteTodosDelete(s)
        \/ \E a \in GateHeaders, q \in GateQueries : GetTodos(s, a, q)
        \/ GetTodosSelect(s)
        \/ \E a \in GateHeaders, f \in GateFiles :
              PostGallery(s, a, f, GalleryBody(Undefined, Undefined, Undefined))
        \/ PostGalleryUpload(s)
        \/ PostGalleryInsert(s)

SpecGate == InitRegistered /\ [][NextGate]_vars

-----------------------------------------------------------------------------
(* SpecWishes: POST /api/wishes, requested with every kind of              *)
(* Authorization header.                                                   *)

WishHeaders == MissingHeaders \cup InvalidHeaders \cup ValidHeaders
\* "invalid"
invalid == <<105, 110, 118, 97, 108, 105, 100>>
\* Bodies of POST /api/wishes: {content:"b"}, {name:"a", content:"b"},
\* {name:"a", content:"b", category:"naughty", is_anonymous:true},
\* {name:"a", content:"b", category:"invalid"}.
PostWishBodies ==
    {WishBody(Undefined, Str(<<98>>), Undefined, Undefined),
     WishBody(Str(<<97>>), Str(<<98>>), Undefined, Undefined),
     WishBody(Str(<<97>>), Str(<<98>>), Str(naughty), Bool(TRUE)),
     WishBody(Str(<<97>>), Str(<<98>>), Str(invalid), Undefined)}

NextWishes ==
    \E s \in Slots :
        \/ \E a \in WishHeaders, b \in PostWishBodies : PostWishes(s, a, b)
        \/ PostWishesInsert(s)
        \/ PostWishesStats(s)

SpecWishes == InitRegistered /\ [][NextWishes]_vars

-----------------------------------------------------------------------------
(* SpecLists: GET /api/wishes and GET /api/gallery over the sample images  *)
(* and the wishes anonymous visitors post.                                 *)

\* Query strings of a listing: none, ?category=c&page=2&limit=1,
\* ?page=0&limit=1000, ?page=abc, ?limit=-5, ?category=c&limit=abc.
ListQueries(c) ==
    {ListQuery(Undefined, Undefined, Undefined),
     ListQuery(c, Str(<<50>>), Str(<<49>>)),
     ListQuery(Undefined, Str(<<48>>), Str(<<49, 48, 48, 48>>)),
     ListQuery(Undefined, Str(<<97, 98, 99>>), Undefined),
     ListQuery(Undefined, Undefined, Str(<<45, 53>>)),
     ListQuery(c, Undefined, Str(<<97, 98, 99>>))}
WishQueries == ListQueries(Str(nice))
GalleryQueries == ListQueries(Str(general))
\* {name:"a", content:"b"}
ListWishBody == WishBody(Str(<<97>>), Str(<<98>>), Undefined, Undefined)

NextLists ==
    \E s \in Slots :
        \/ PostWishes(s, NoHeader, ListWishBody)
        \/ PostWishesInsert(s)
        \/ PostWishesStats(s)
        \/ \E q \in WishQueries : GetWishes(s, q)
        \/ \E q \in GalleryQueries : GetGallery(s, q)
        \/ ListSelect(s)
        \/ ListCount(s)

SpecLists == InitRegistered /\ [][NextLists]_vars

-----------------------------------------------------------------------------
(* SpecRegister: registrations on an empty users table.                    *)

\* "secret", "abc"
secret == <<115, 101, 99, 114, 101, 116>>
abc == <<97, 98, 99>>
\* Bodies of POST /api/auth/register: {}, then username, email, password
\* a a@x abc | a a@x secret | a b@x secret | b b@x secret | A c@x secret |
\* a a@x (no password).
RegisterBodies ==
    {RegisterBody(Undefined, Undefined, Undefined),
     RegisterBody(Str(<<97>>), Str(<<97, 64, 120>>), Str(abc)),
     RegisterBody(Str(<<97>>), Str(<<97, 64, 120>>), Str(secret)),
     RegisterBody(Str(<<97>>), Str(<<98, 64, 120>>), Str(secret)),
     RegisterBody(Str(<<98>>), Str(<<98, 64, 120>>), Str(secret)),
     RegisterBody(Str(<<65>>), Str(<<99, 64, 120>>), Str(secret)),
     RegisterBody(Str(<<97>>), Str(<<97, 64, 120>>), Undefined)}

NextRegister ==
    \E s \in Slots :
        \/ \E b \in RegisterBodies : PostRegister(s, b)
        \/ PostRegisterCheck(s)
        \/ PostRegisterHash(s)
        \/ PostRegisterInsert(s)

SpecRegister == Init /\ [][NextRegister]_vars

-----------------------------------------------------------------------------
(* SpecPagination: the pagination transformers applied to bounded inputs.  *)

MaxPgNum == 3
MaxPage == 3
MaxMetaLimit == 10
MaxTotal == 45

\* Inputs parseInt rejects: undefined (a missing query parameter), null,
\* NaN, "", "abc", "-", " ".
PgUnparseable ==
    {Undefined, Null, NaN, Str(<<>>), Str(<<97, 98, 99>>), Str(<<45>>), Str(<<32>>)}
\* Inputs parseInt accepts: integers, and "2", "0", "-3", " 7", "2.5",
\* "12a", "200".
PgParseable ==
    {Num(n) : n \in (0 - 1)..MaxPgNum} \cup {Num(20), Num(21), Num(100), Num(101)}
    \cup {Str(<<50>>), Str(<<48>>), Str(<<45, 51>>), Str(<<32, 55>>),
          Str(<<50, 46, 53>>), Str(<<49, 50, 97>>), Str(<<50, 48, 48>>)}
PgInputs == PgUnparseable \cup PgParseable
\* maxLimit arguments: omitted (the default applies) or an integer.
PgMaxLimits == {Undefined, Num(50)} \cup {Num(n) : n \in (0 - 1)..MaxPgNum}

\* The calls to make: the function and its arguments.
PgCalls ==
    {[fn |-> "normalizePagination", returned |-> FALSE,
      page |-> page, limit |-> limit, maxLimit |-> maxLimit] :
        page \in PgInputs, limit \in PgInputs, maxLimit \in PgMaxLimits}
MetaCalls ==
    {[fn |-> "createPaginationMeta", returned |-> FALSE,
      page |-> page, limit |-> limit, total |-> total] :
        page \in 0..MaxPage, limit \in 0..MaxMetaLimit, total \in 0..MaxTotal}

CallNormalizePagination ==
    /\ call.fn = "normalizePagination" /\ ~call.returned
    /\ call' = [fn |-> call.fn, returned |-> TRUE,
                page |-> call.page, limit |-> call.limit, maxLimit |-> call.maxLimit,
                result |-> normalizePagination(call.page, call.limit, call.maxLimit)]
    /\ UNCHANGED <<reqs, tables>>

CallCreatePaginationMeta ==
    /\ call.fn = "createPaginationMeta" /\ ~call.returned
    /\ call' = [fn |-> call.fn, returned |-> TRUE,
                page |-> call.page, limit |-> call.limit, total |-> call.total,
                result |-> createPaginationMeta(Num(call.page), Num(call.limit),
                                                Num(call.total))]
    /\ UNCHANGED <<reqs, tables>>

InitPagination ==
    /\ reqs = [s \in Slots |-> Idle]
    /\ users = {}
    /\ todos = {}
    /\ wishes = {}
    /\ gallery_images = {}
    /\ music_playlist = {}
    /\ site_stats = NoRow
    /\ autoinc = [users |-> 1, todos |-> 1, wishes |-> 1, gallery_images |-> 1]
    /\ (call \in PgCalls \/ call \in MetaCalls)

NextPagination == CallNormalizePagination \/ CallCreatePaginationMeta

SpecPagination == InitPagination /\ [][NextPagination]_vars

-----------------------------------------------------------------------------
(* SpecStrings: the string transformers applied to bounded inputs.         *)

MaxStrLen == 3

\* The strings over an alphabet, up to a length.
SeqsUpTo(alphabet, n) == UNION {[1..k -> alphabet] : k \in 0..n}

\* Values that are no strings: undefined, null, 5, true.
NonStrings == {Undefined, Null, Num(5), Bool(TRUE)}

\* NUL, tab, vertical tab, space, "a", DEL.
SanitizeAlphabet == {0, 9, 11, 32, 97, 127}
SanitizeInputs == {Str(s) : s \in SeqsUpTo(SanitizeAlphabet, MaxStrLen)} \cup NonStrings

SanitizeCalls == {[fn |-> "sanitize", returned |-> FALSE, str |-> v] : v \in SanitizeInputs}

CallSanitize ==
    /\ call.fn = "sanitize" /\ ~call.returned
    /\ call' = [fn |-> call.fn, returned |-> TRUE, str |-> call.str,
                result |-> sanitize(call.str)]
    /\ UNCHANGED <<reqs, tables>>

NoTables ==
    /\ reqs = [s \in Slots |-> Idle]
    /\ users = {}
    /\ todos = {}
    /\ wishes = {}
    /\ gallery_images = {}
    /\ music_playlist = {}
    /\ site_stats = NoRow
    /\ autoinc = [users |-> 1, todos |-> 1, wishes |-> 1, gallery_images |-> 1]

\* maxLength arguments of truncate.
TruncateLengths == (0 - 1)..(MaxStrLen + 1)
TruncateCalls ==
    {[fn |-> "truncate", returned |-> FALSE, str |-> v, maxLength |-> Num(n)] :
        v \in SanitizeInputs, n \in TruncateLengths}

CallTruncate ==
    /\ call.fn = "truncate" /\ ~call.returned
    /\ call' = [fn |-> call.fn, returned |-> TRUE, str |-> call.str,
                maxLength |-> call.maxLength,
                result |-> truncate(call.str, call.maxLength)]
    /\ UNCHANGED <<reqs, tables>>

\* & < > " ' "a", space, NUL.
EscapeAlphabet == {38, 60, 62, 34, 39, 97, 32, 0}
\* "&lt;", "<script>"
EscapedLt == <<38, 108, 116, 59>>
ScriptTag == <<60, 115, 99, 114, 105, 112, 116, 62>>
EscapeInputs ==
    {Str(s) : s \in SeqsUpTo(EscapeAlphabet, MaxStrLen)}
    \cup {Str(EscapedLt), Str(ScriptTag)} \cup NonStrings
EscapeCalls == {[fn |-> "escapeHtml", returned |-> FALSE, str |-> v] : v \in EscapeInputs}

CallEscapeHtml ==
    /\ call.fn = "escapeHtml" /\ ~call.returned
    /\ call' = [fn |-> call.fn, returned |-> TRUE, str |-> call.str,
                result |-> escapeHtml(call.str)]
    /\ UNCHANGED <<reqs, tables>>

InitStrings ==
    NoTables /\ (call \in SanitizeCalls \/ call \in TruncateCalls \/ call \in EscapeCalls)

NextStrings == CallSanitize \/ CallTruncate \/ CallEscapeHtml

SpecStrings == InitStrings /\ [][NextStrings]_vars

-----------------------------------------------------------------------------
(* SpecNumbers: the number and boolean transformers applied to bounded     *)
(* inputs.                                                                 *)

MaxClamp == 3

\* Values to clamp: integers, NaN, "2", "-3", " 1", "abc", "", undefined,
\* null, true.
ClampValues ==
    {Num(n) : n \in (0 - 2)..(MaxClamp + 1)}
    \cup {NaN, Str(<<50>>), Str(<<45, 51>>), Str(<<32, 49>>), Str(<<97, 98, 99>>),
          Str(<<>>), Undefined, Null, Bool(TRUE)}
ClampCalls ==
    {[fn |-> "clamp", returned |-> FALSE, value |-> v, min |-> Num(lo), max |-> Num(hi)] :
        v \in ClampValues, lo \in (0 - 1)..MaxClamp, hi \in (0 - 1)..MaxClamp}

CallClamp ==
    /\ call.fn = "clamp" /\ ~call.returned
    /\ call' = [fn |-> call.fn, returned |-> TRUE, value |-> call.value,
                min |-> call.min, max |-> call.max,
                result |-> clamp(call.value, call.min, call.max)]
    /\ UNCHANGED <<reqs, tables>>

\* An object, e.g. {}.
AnObject == [object |-> TRUE]
\* Values to convert: booleans, numbers, NaN, "true", "TRUE", "True", "1",
\* "yes", "YES", "false", "0", "", " true", "y", "2", undefined, null, {}.
BoolValues ==
    {Bool(TRUE), Bool(FALSE), NaN, Undefined, Null, AnObject}
    \cup {Num(n) : n \in (0 - 1)..MaxClamp}
    \cup {Str(true), Str(<<84, 82, 85, 69>>), Str(<<84, 114, 117, 101>>), Str(one),
          Str(yes), Str(<<89, 69, 83>>), Str(<<102, 97, 108, 115, 101>>), Str(<<48>>),
          Str(<<>>), Str(<<32, 116, 114, 117, 101>>), Str(<<121>>), Str(<<50>>)}
BoolCalls == {[fn |-> "toBool", returned |-> FALSE, value |-> v] : v \in BoolValues}

CallToBool ==
    /\ call.fn = "toBool" /\ ~call.returned
    /\ call' = [fn |-> call.fn, returned |-> TRUE, value |-> call.value,
                result |-> toBool(call.value)]
    /\ UNCHANGED <<reqs, tables>>

InitNumbers == NoTables /\ (call \in ClampCalls \/ call \in BoolCalls)

NextNumbers == CallClamp \/ CallToBool

SpecNumbers == InitNumbers /\ [][NextNumbers]_vars

-----------------------------------------------------------------------------
(* SpecShapers: the input and output shapers applied to bounded bodies.    *)

\* Bodies for input.todo: every subset of the five fields, with values
\* "b", " b " | "d" | high, "x" | "d" | true, "false".
ShaperTodoBodies ==
    {TodoBody(t, d, c, p, dd) :
        t \in {Undefined, Str(<<98>>), Str(<<32, 98, 32>>)},
        d \in {Undefined, Str(<<100>>)},
        c \in {Undefined, Bool(TRUE), Str(<<102, 97, 108, 115, 101>>)},
        p \in {Undefined, Str(high), Str(<<120>>)},
        dd \in {Undefined, Str(<<100>>)}}
InputTodoCalls == {[fn |-> "input.todo", returned |-> FALSE, data |-> b] : b \in ShaperTodoBodies}

\* input.todo(data), and the example PATCH applying its update set to the
\* stored todo.
CallInputTodo ==
    /\ call.fn = "input.todo" /\ ~call.returned
    /\ LET shaped == inputTodo(call.data)
           updates == ExamplePatchUpdates(shaped)
       IN  call' = [fn |-> call.fn, returned |-> TRUE, data |-> call.data,
                    result |-> shaped,
                    updates |-> updates,
                    updated |-> UpdatedTodo(StoredTodo, updates)]
    /\ UNCHANGED <<reqs, tables>>

\* A string of n letters "a".
Letters(n) == [i \in 1..n |-> 97]
\* Bodies for input.wish.  name: missing, " a ", NUL space "a", 101
\* letters, 5; content: missing, " b ", 1001 letters; category: missing,
\* nice, naughty, "invalid", 5; is_anonymous: missing, "true", true, 0.
ShaperWishBodies ==
    {WishBody(n, c, k, a) :
        n \in {Undefined, Str(<<32, 97, 32>>), Str(<<0, 32, 97>>), Str(Letters(101)), Num(5)},
        c \in {Undefined, Str(<<32, 98, 32>>), Str(Letters(1001))},
        k \in {Undefined, Str(nice), Str(naughty), Str(invalid), Num(5)},
        a \in {Undefined, Str(true), Bool(TRUE), Num(0)}}
InputWishCalls == {[fn |-> "input.wish", returned |-> FALSE, data |-> b] : b \in ShaperWishBodies}

CallInputWish ==
    /\ call.fn = "input.wish" /\ ~call.returned
    /\ call' = [fn |-> call.fn, returned |-> TRUE, data |-> call.data,
                result |-> inputWish(call.data)]
    /\ UNCHANGED <<reqs, tables>>

\* Bodies for input.userRegistration.  username: missing, " Al ", 51
\* letters, 5; email: missing, " A@B.c ", 101 letters "A", 5; password:
\* missing, " Pw ", NUL space "P", 101 letters, 5.
ShaperRegisterBodies ==
    {RegisterBody(u, e, p) :
        u \in {Undefined, Str(<<32, 65, 108, 32>>), Str(Letters(51)), Num(5)},
        e \in {Undefined, Str(<<32, 65, 64, 66, 46, 99, 32>>), Str([i \in 1..101 |-> 65]), Num(5)},
        p \in {Undefined, Str(<<32, 80, 119, 32>>), Str(<<0, 32, 80>>), Str(Letters(101)), Num(5)}}
InputUserRegistrationCalls ==
    {[fn |-> "input.userRegistration", returned |-> FALSE, data |-> b] : b \in ShaperRegisterBodies}

CallInputUserRegistration ==
    /\ call.fn = "input.userRegistration" /\ ~call.returned
    /\ call' = [fn |-> call.fn, returned |-> TRUE, data |-> call.data,
                result |-> inputUserRegistration(call.data)]
    /\ UNCHANGED <<reqs, tables>>

InitShapers ==
    /\ NoTables
    /\ \/ call \in InputTodoCalls
       \/ call \in InputWishCalls
       \/ call \in InputUserRegistrationCalls

NextShapers == CallInputTodo \/ CallInputWish \/ CallInputUserRegistration

SpecShapers == InitShapers /\ [][NextShapers]_vars

-----------------------------------------------------------------------------
(* SpecAuth: registrations and logins on an empty users table, and         *)
(* output.user applied to user records.                                    *)

\* "wrong1"
wrong1 == <<119, 114, 111, 110, 103, 49>>
\* Bodies of POST /api/auth/register: username, email, password
\* a a@x secret | a a@x abc | b a@x secret.
AuthRegisterBodies ==
    {RegisterBody(Str(<<97>>), Str(<<97, 64, 120>>), Str(secret)),
     RegisterBody(Str(<<97>>), Str(<<97, 64, 120>>), Str(abc)),
     RegisterBody(Str(<<98>>), Str(<<97, 64, 120>>), Str(secret))}
\* Bodies of POST /api/auth/login: username, password
\* a secret | a@x secret | a wrong1 | z secret | a (none) | a 5.
LoginBodies ==
    {LoginBody(Str(<<97>>), Str(secret)),
     LoginBody(Str(<<97, 64, 120>>), Str(secret)),
     LoginBody(Str(<<97>>), Str(wrong1)),
     LoginBody(Str(<<122>>), Str(secret)),
     LoginBody(Str(<<97>>), Undefined),
     LoginBody(Str(<<97>>), Num(5))}

\* A Date, and an avatar path "p".
ADate == [date |-> 1]
\* User records for output.user: null, a row with every column, a row
\* without avatar and with a created_at that is no date, the record
\* {id, username, email, password_hash, created_at}.
UserRecords ==
    {Null,
     [id |-> 1, username |-> Str(<<97>>), email |-> Str(<<97, 64, 120>>),
      password_hash |-> bcryptHash(Str(secret)), avatar |-> Str(<<112>>),
      created_at |-> ADate],
     [id |-> 2, username |-> Str(<<98>>), email |-> Str(<<98, 64, 120>>),
      password_hash |-> bcryptHash(Str(secret)), avatar |-> Null,
      created_at |-> Str(abc)],
     [id |-> 1, username |-> Str(<<97>>), email |-> Str(<<97, 64, 120>>),
      password_hash |-> Str(<<120>>), avatar |-> Undefined, created_at |-> ADate]}
OutputUserCalls ==
    {[fn |-> "output.user", returned |-> FALSE, userData |-> u] : u \in UserRecords}

CallOutputUser ==
    /\ call.fn = "output.user" /\ ~call.returned
    /\ call' = [fn |-> call.fn, returned |-> TRUE, userData |-> call.userData,
                result |-> outputUser(call.userData)]
    /\ UNCHANGED <<reqs, tables>>

InitAuth ==
    /\ reqs = [s \in Slots |-> Idle]
    /\ users = {}
    /\ todos = {}
    /\ wishes = {}
    /\ gallery_images = SampleImages
    /\ music_playlist = SamplePlaylist
    /\ site_stats = ZeroStats
    /\ autoinc = [users |-> 1, todos |-> 1, wishes |-> 1,
                  gallery_images |-> Cardinality(SampleImages) + 1]
    /\ call \in OutputUserCalls

NextAuth ==
    \/ CallOutputUser
    \/ \E s \in Slots :
        \/ \E b \in AuthRegisterBodies : PostRegister(s, b)
        \/ PostRegisterCheck(s)
        \/ PostRegisterHash(s)
        \/ PostRegisterInsert(s)
        \/ \E b \in LoginBodies : PostLogin(s, b)
        \/ PostLoginFind(s)
        \/ PostLoginCompare(s)

SpecAuth == InitAuth /\ [][NextAuth]_vars

-----------------------------------------------------------------------------
(* SpecTodoLists: the registered users create, complete and list todos.    *)

MaxListedTodos == 2

\* Bodies of POST /api/todos: {title:"a"}, {title:"a", priority:"high"}.
ListedTodoBodies ==
    {TodoBody(Str(<<97>>), Undefined, Undefined, Undefined, Undefined),
     TodoBody(Str(<<97>>), Undefined, Undefined, Str(high), Undefined)}
\* Body of PATCH /api/todos/:id: {completed:true}.
CompleteBody == TodoBody(Undefined, Undefined, Bool(TRUE), Undefined, Undefined)
\* Queries of GET /api/todos: completed missing, "true" or "false";
\* priority missing, "high" or "x".
TodoQueries ==
    {[completed |-> c, priority |-> p] :
        c \in {Undefined, Str(true), Str(<<102, 97, 108, 115, 101>>)},
        p \in {Undefined, Str(high), Str(<<120>>)}}

NextTodoLists ==
    \E s \in Slots :
        \/ \E a \in ValidHeaders, b \in ListedTodoBodies :
              PostTodosUpTo(MaxListedTodos, s, a, b)
        \/ PostTodosInsert(s, FALSE)
        \/ PostTodosStats(s)
        \/ \E a \in ValidHeaders, id \in 1..MaxListedTodos : PatchTodos(s, a, id, CompleteBody)
        \/ PatchTodosCheck(s)
        \/ PatchTodosUpdate(s, FALSE)
        \/ PatchTodosSelect(s)
        \/ \E a \in ValidHeaders, q \in TodoQueries : GetTodos(s, a, q)
        \/ GetTodosSelect(s)

SpecTodoLists == InitRegistered /\ [][NextTodoLists]_vars

-----------------------------------------------------------------------------
(* SpecMusic: the music routes over the sample playlist, on a store that   *)
(* may fail.                                                               *)

\* Songs 1 and 2 of the playlist, and an id no song has.
PlayedIds == {1, 2, 6}

NextMusic ==
    \E s \in Slots :
        \/ GetMusic(s)
        \/ GetMusicSelect(s)
        \/ \E id \in PlayedIds : PostMusicPlay(s, id)
        \/ PostMusicPlayCheck(s)
        \/ PostMusicPlayUpdate(s)
        \/ \E env \in NodeEnvs : ExecuteFails(s, env)

SpecMusic == InitRegistered /\ [][NextMusic]_vars

-----------------------------------------------------------------------------
(* SpecStats: the stats routes, on a day that starts with or without its   *)
(* site_stats row, on a store that may fail.                               *)

NextStats ==
    \E s \in Slots :
        \/ PostStatsVisit(s)
        \/ PostStatsVisitUpsert(s)
        \/ GetStats(s)
        \/ GetStatsSelect(s)
        \/ \E env \in NodeEnvs : ExecuteFails(s, env)

SpecStats == Init /\ [][NextStats]_vars

-----------------------------------------------------------------------------
(* SpecServer: every route of the server, one request after the other, on  *)
(* a store that may fail.  A visitor registers, logs in, and requests the  *)
(* routes with and without the token.                                      *)

MaxServed == 1

\* No request is being handled.
Quiet == \A s \in Slots : Vacant(s)

\* register a a@x secret; login a secret, a wrong1.
ServerRegisterBody == RegisterBody(Str(<<97>>), Str(<<97, 64, 120>>), Str(secret))
ServerLoginBodies == {LoginBody(Str(<<97>>), Str(secret)), LoginBody(Str(<<97>>), Str(wrong1))}
\* No Authorization header, or the token of a registered user.
ServerHeaders == {NoHeader} \cup ValidHeaders
ServerQuery == ListQuery(Undefined, Undefined, Undefined)

NextServer ==
    \E s \in Slots :
        \/ Quiet /\ PostRegister(s, ServerRegisterBody)
        \/ PostRegisterCheck(s)
        \/ PostRegisterHash(s)
        \/ PostRegisterInsert(s)
        \/ \E b \in ServerLoginBodies : Quiet /\ PostLogin(s, b)
        \/ PostLoginFind(s)
        \/ PostLoginCompare(s)
        \/ \E a \in ServerHeaders : Quiet /\ PostTodos(s, a, GatePostBody)
        \/ \E strict \in BOOLEAN : PostTodosInsert(s, strict)
        \/ PostTodosStats(s)
        \/ \E a \in ServerHeaders : Quiet /\ PatchTodos(s, a, 1, GatePatchBody)
        \/ PatchTodosCheck(s)
        \/ \E strict \in BOOLEAN : PatchTodosUpdate(s, strict)
        \/ PatchTodosSelect(s)
        \/ \E a \in ServerHeaders : Quiet /\ DeleteTodos(s, a, 1)
        \/ DeleteTodosCheck(s)
        \/ DeleteTodosDelete(s)
        \/ \E a \in ServerHeaders, q \in GateQueries : Quiet /\ GetTodos(s, a, q)
        \/ GetTodosSelect(s)
        \/ \E a \in ServerHeaders : Quiet /\ PostWishes(s, a, ListWishBody)
        \/ PostWishesInsert(s)
        \/ PostWishesStats(s)
        \/ Quiet /\ GetWishes(s, ServerQuery)
        \/ Quiet /\ GetGallery(s, ServerQuery)
        \/ ListSelect(s)
        \/ ListCount(s)
        \/ \E a \in ServerHeaders :
              Quiet /\ PostGallery(s, a, ImageFile, GalleryBody(Undefined, Undefined, Undefined))
        \/ PostGalleryUpload(s)
        \/ PostGalleryInsert(s)
        \/ Quiet /\ GetMusic(s)
        \/ GetMusicSelect(s)
        \/ \E id \in {1, 6} :
              Quiet /\ PlayCount(music_playlist, 1) < MaxServed /\ PostMusicPlay(s, id)
        \/ PostMusicPlayCheck(s)
        \/ PostMusicPlayUpdate(s)
        \/ Quiet /\ TodayStats(site_stats).visit_count < MaxServed /\ PostStatsVisit(s)
        \/ PostStatsVisitUpsert(s)
        \/ Quiet /\ GetStats(s)
        \/ GetStatsSelect(s)
        \/ Quiet /\ GetTimeline(s)
        \/ GetTimelineSelect(s)
        \/ \E env \in NodeEnvs : ExecuteFails(s, env)

SpecServer == Init /\ [][NextServer]_vars

-----------------------------------------------------------------------------
(* SpecCreation: wishes and todos are created, by visitors and registered  *)
(* users, next to visits and deletions, on a store that may fail.          *)

\* Bodies of POST /api/wishes: {name:"a", content:"b"}, {content:"b"}.
CreationWishBodies == {ListWishBody, WishBody(Undefined, Str(<<98>>), Undefined, Undefined)}
\* Bodies of POST /api/todos: {title:"a"}, {}.
CreationTodoBodies ==
    {GatePostBody, TodoBody(Undefined, Undefined, Undefined, Undefined, Undefined)}
\* No Authorization header, or the token of user 1.
CreationHeaders ==
    {NoHeader, Header(<<Word, jwtSign(Identity(CHOOSE u \in users : u.id = 1))>>)}

NextCreation ==
    \E s \in Slots :
        \/ \E b \in CreationWishBodies : PostWishes(s, NoHeader, b)
        \/ PostWishesInsert(s)
        \/ PostWishesStats(s)
        \/ \E a \in CreationHeaders, b \in CreationTodoBodies :
              PostTodosUpTo(MaxListedTodos, s, a, b)
        \/ \E strict \in BOOLEAN : PostTodosInsert(s, strict)
        \/ PostTodosStats(s)
        \/ \E a \in CreationHeaders : DeleteTodos(s, a, 1)
        \/ DeleteTodosCheck(s)
        \/ DeleteTodosDelete(s)
        \/ TodayStats(site_stats).visit_count < MaxServed /\ PostStatsVisit(s)
        \/ PostStatsVisitUpsert(s)
        \/ ExecuteFails(s, Undefined)

SpecCreation == InitRegistered /\ [][NextCreation]_vars

-----------------------------------------------------------------------------
(* SpecValidators: the validators applied to bounded values.               *)

MaxRange == 3

\* "username", "title", "priority"
username == <<117, 115, 101, 114, 110, 97, 109, 101>>
title == <<116, 105, 116, 108, 101>>
priority == <<112, 114, 105, 111, 114, 105, 116, 121>>
FieldNames == {username, title, priority}

\* Values to require: undefined, null, "", 0, false, NaN, "a", " ", 5, true.
RequiredValues ==
    {Undefined, Null, Str(<<>>), Num(0), Bool(FALSE), NaN, Str(<<97>>), Str(<<32>>),
     Num(5), Bool(TRUE)}
RequiredCalls ==
    {[fn |-> "required", returned |-> FALSE, value |-> v, fieldName |-> f] :
        v \in RequiredValues, f \in FieldNames}

CallRequired ==
    /\ call.fn = "required" /\ ~call.returned
    /\ call' = [fn |-> call.fn, returned |-> TRUE, value |-> call.value,
                fieldName |-> call.fieldName,
                result |-> required(call.value, call.fieldName)]
    /\ UNCHANGED <<reqs, tables>>

\* Values to measure: strings of 0 to MaxRange + 1 letters, the falsy
\* values undefined, null, 0, false, NaN, and the truthy non-strings 5 and
\* true.
LengthValues ==
    {Str(Letters(n)) : n \in 0..(MaxRange + 1)}
    \cup {Undefined, Null, Num(0), Bool(FALSE), NaN, Num(5), Bool(TRUE)}
LengthCalls ==
    {[fn |-> "length", returned |-> FALSE, str |-> v, min |-> Num(lo), max |-> Num(hi),
      fieldName |-> f] :
        v \in LengthValues, lo \in 0..MaxRange, hi \in 0..MaxRange, f \in {username, title}}

CallLength ==
    /\ call.fn = "length" /\ ~call.returned
    /\ call' = [fn |-> call.fn, returned |-> TRUE, str |-> call.str, min |-> call.min,
                max |-> call.max, fieldName |-> call.fieldName,
                result |-> length(call.str, call.min, call.max, call.fieldName)]
    /\ UNCHANGED <<reqs, tables>>

\* Values to look up: "low", "medium", "high", "nice", "invalid", "LOW",
\* "", undefined, null, 1.
EnumValues ==
    {Str(low), Str(medium), Str(high), Str(nice), Str(invalid), Str(<<76, 79, 87>>),
     Str(<<>>), Undefined, Null, Num(1)}
\* Arrays of allowed values.
EnumArrays ==
    {<<Str(low), Str(medium), Str(high)>>, <<Str(nice), Str(naughty)>>, <<Str(high)>>, <<>>}
EnumCalls ==
    {[fn |-> "enum", returned |-> FALSE, value |-> v, allowedValues |-> a, fieldName |-> f] :
        v \in EnumValues, a \in EnumArrays, f \in {priority, title}}

CallEnum ==
    /\ call.fn = "enum" /\ ~call.returned
    /\ call' = [fn |-> call.fn, returned |-> TRUE, value |-> call.value,
                allowedValues |-> call.allowedValues, fieldName |-> call.fieldName,
                result |-> enum(call.value, call.allowedValues, call.fieldName)]
    /\ UNCHANGED <<reqs, tables>>

InitValidators ==
    /\ NoTables
    /\ \/ call \in RequiredCalls
       \/ call \in LengthCalls
       \/ call \in EnumCalls

NextValidators == CallRequired \/ CallLength \/ CallEnum

SpecValidators == InitValidators /\ [][NextValidators]_vars

-----------------------------------------------------------------------------
(* Claims about the gate and the todo routes.                              *)

GatedRoutes ==
    {"GET /api/todos", "POST /api/todos", "PATCH /api/todos/:id",
     "DELETE /api/todos/:id", "POST /api/gallery"}
OwnerRoutes == {"PATCH /api/todos/:id", "DELETE /api/todos/:id"}

C3_OwnerStep ==
    \A t \in todos :
        t \notin todos' =>
            \E s \in Slots :
                /\ reqs[s].pc \in {"update", "delete"}
                /\ reqs[s].route \in OwnerRoutes
                /\ reqs[s].params.id = t.id
                /\ reqs[s].user.id = t.user_id
                /\ reqs'[s] # reqs[s]
C3_OthersRefused ==
    \A s \in Slots :
        (reqs[s].route \in OwnerRoutes /\ reqs[s].seen = "other") =>
            Done(reqs[s]) /\ reqs[s].res.status = 404 /\ reqs[s].writes = 0
C3_TodoOwnership == [](C3_OthersRefused) /\ [][C3_OwnerStep]_vars

\* User 2's PATCH of user 1's stored todo was answered 404.
C3_Witness ==
    \E s \in Slots :
        /\ reqs[s].route = "PATCH /api/todos/:id" /\ Done(reqs[s])
        /\ reqs[s].user.id = 2 /\ reqs[s].seen = "other" /\ reqs[s].res.status = 404
        /\ reqs[s].body.title # Undefined
        /\ \E t \in todos : t.id = reqs[s].params.id /\ t.user_id = 1 /\ t.title = Str(<<97>>)

\* C4: the answer of PATCH and DELETE /api/todos/:id for a todo of another
\* user is the answer for an id that is not stored: 404 with the same
\* body, whatever the request body, and no statement written.
NotFound == Response(404, [error |-> "Todo not found"])
C4_NoExistenceLeak ==
    \A s, t \in Slots :
        LET r == reqs[s]
            q == reqs[t]
        IN  (r.route \in OwnerRoutes /\ r.seen \in {"other", "absent"}) =>
              /\ Done(r) /\ r.res = NotFound /\ r.writes = 0
              /\ (q.route \in OwnerRoutes /\ q.seen \in {"other", "absent"}) => q.res = r.res

\* A PATCH with an invalid priority on another user's todo and a PATCH
\* with no fields on a todo that is not stored got the same answer.
C4_Witness ==
    \E s, t \in Slots :
        /\ reqs[s].route = "PATCH /api/todos/:id" /\ reqs[s].seen = "other"
        /\ reqs[s].body.priority = Str(<<120>>)
        /\ reqs[t].route = "PATCH /api/todos/:id" /\ reqs[t].seen = "absent"
        /\ \A f \in TodoFields : reqs[t].body[f] = Undefined
        /\ reqs[s].res = reqs[t].res /\ reqs[s].res.status = 404

\* C7: a POST or PATCH of a todo whose priority is supplied and is not
\* low, medium or high is answered 400 without a write, and every priority
\* the handlers hand to the store is low, medium or high.
C7_PriorityClosedEnum ==
    \A s \in Slots :
        LET r == reqs[s]
        IN  (r.route = "POST /api/todos"
               \/ (r.route = "PATCH /api/todos/:id" /\ r.seen = "own")) =>
              /\ (r.body.priority # Undefined /\ ~Includes(Priorities, r.body.priority)) =>
                    Done(r) /\ r.res.status = 400 /\ r.writes = 0
              /\ r.pc \in {"insert", "update"} =>
                    r.sql.priority = Undefined \/ Includes(Priorities, r.sql.priority)

\* C16: an owner's PATCH whose body has none of title, description,
\* completed, priority, due_date is answered 400 and issues no UPDATE; the
\* UPDATE an owner's PATCH issues sets the fields present in the body, to
\* the body's values, and leaves every other field of the todo as it was.
C16_OwnerPatch ==
    \A s \in Slots :
        LET r == reqs[s]
        IN  (r.route = "PATCH /api/todos/:id" /\ r.seen = "own") =>
              /\ (\A f \in TodoFields : r.body[f] = Undefined) =>
                    /\ Done(r) /\ r.writes = 0
                    /\ r.res = Response(400, [error |-> "No fields to update"])
              /\ r.pc = "update" =>
                    \A f \in TodoFields : (r.sql[f] = Undefined) = (r.body[f] = Undefined)
C16_UpdateStep ==
    \A s \in Slots :
        LET r == reqs[s]
        IN  (r.route = "PATCH /api/todos/:id" /\ r.pc = "update" /\ reqs'[s].pc = "select") =>
              \A t \in todos :
                  IF t.id # r.params.id THEN t \in todos'
                  ELSE \E u \in todos' :
                          /\ u.id = t.id /\ u.user_id = t.user_id
                          /\ \A f \in TodoFields :
                                u[f] = IF r.body[f] = Undefined THEN t[f]
                                       ELSE IF f = "completed"
                                       THEN (IF Truthy(r.body[f]) THEN Num(1) ELSE Num(0))
                                       ELSE r.body[f]
-----------------------------------------------------------------------------
(* Claims about the wishes routes and the listings.                        *)

\* What a request's Authorization header identifies: the payload of a
\* token that is signed and not expired, in second place; else nothing.
Bearer(authorization) ==
    IF /\ authorization.present
       /\ Len(authorization.parts) >= 2
       /\ authorization.parts[2].kind = "jwt"
       /\ authorization.parts[2].signed
       /\ ~authorization.parts[2].expired
    THEN authorization.parts[2].payload
    ELSE Undefined

\* C2: optionalAuth passes every POST /api/wishes on to the handler exactly
\* once and never answers 401 or 403; with no token or a token that does
\* not verify the handler sees no identity and the wish is stored with
\* user_id null; with a valid token the handler sees the token's payload
\* and the wish is stored with user_id equal to the payload's id.
C2_OptionalAuth ==
    \A s \in Slots :
        LET r == reqs[s]
            who == Bearer(r.authorization)
            owner == IF who = Undefined THEN Null ELSE who.id
        IN  r.route = "POST /api/wishes" =>
              /\ r.next = 1
              /\ r.res.status \notin {401, 403}
              /\ r.user = who
              /\ r.pc = "insert" => r.sql.user_id = owner
              /\ r.pc = "stats" =>
                    \E w \in wishes : w.id = r.params.insertId /\ w.user_id = owner

\* A wish sent with an expired token is stored anonymous while a wish sent
\* with user 2's valid token is about to be stored as user 2's.
C2_Witness ==
    \E s, t \in Slots :
        /\ reqs[s].route = "POST /api/wishes" /\ reqs[s].pc = "stats"
        /\ reqs[s].authorization \in InvalidHeaders
        /\ \E w \in wishes : w.id = reqs[s].params.insertId /\ w.user_id = Null
        /\ reqs[t].route = "POST /api/wishes" /\ reqs[t].pc = "insert"
        /\ reqs[t].authorization \in ValidHeaders /\ reqs[t].sql.user_id = 2

\* C6: a POST /api/wishes with name and content and a category that is
\* neither nice nor naughty is never answered 400, is stored with category
\* nice and is answered 201.
C6_CategorySilentDefault ==
    \A s \in Slots :
        LET r == reqs[s]
        IN  (/\ r.route = "POST /api/wishes"
             /\ Truthy(r.body.name) /\ Truthy(r.body.content)
             /\ r.body.category # Undefined
             /\ ~Includes(Categories, r.body.category)) =>
              /\ r.res.status # 400
              /\ Done(r) => r.res.status = 201 /\ r.res.body.wish.category = Str(nice)
              /\ r.pc = "insert" => r.sql.category = Str(nice)

ListRoutes == {"GET /api/wishes", "GET /api/gallery"}

\* C8: whatever page and limit a GET /api/wishes or GET /api/gallery
\* carries, the page used is an integer >= 1, the limit handed to the
\* store is an integer in 1..100, the offset handed to the store is
\* (page - 1) * limit and >= 0, and the response's pagination block echoes
\* that page and that limit.
C8_ListPagination ==
    \A s \in Slots :
        LET r == reqs[s]
        IN  r.route \in ListRoutes =>
              /\ IsInt(r.sql.page) /\ r.sql.page.num >= 1
              /\ IsInt(r.sql.limit) /\ r.sql.limit.num \in 1..DefaultMaxLimit
              /\ IsInt(r.sql.offset) /\ r.sql.offset.num >= 0
              /\ r.sql.offset.num = (r.sql.page.num - 1) * r.sql.limit.num
              /\ r.res.status \in {0, 200}
              /\ r.res.status = 200 =>
                    /\ r.res.body.pagination.page = r.sql.page
                    /\ r.res.body.pagination.limit = r.sql.limit

-----------------------------------------------------------------------------
(* Claims about registration.                                              *)

NoAccount(r) == r.writes = 0 /\ (Done(r) => "token" \notin DOMAIN r.res.body)

\* C5 as stated: a registration whose username or email is that of a user
\* stored when it arrives is answered 409, stores no user and gets no
\* token.
C5_DuplicateConflict ==
    \A s \in Slots :
        LET r == reqs[s]
        IN  (r.route = "POST /api/auth/register" /\ r.seen = "stored") =>
              /\ NoAccount(r)
              /\ Done(r) => r.res.status = 409

\* C5: a registration whose username or email is that of a user stored
\* when it arrives stores no user and gets no token; it is answered 409
\* when it carries a username, an email and a password of at least 6
\* characters, and 400 when a field is missing or the password is shorter.
C5_DuplicateRefused ==
    \A s \in Slots :
        LET r == reqs[s]
            b == r.body
            complete == /\ b.username # Undefined /\ b.email # Undefined
                        /\ b.password # Undefined
                        /\ Len(b.password.str) >= MinPasswordLength
        IN  (r.route = "POST /api/auth/register" /\ r.seen = "stored") =>
              /\ NoAccount(r)
              /\ r.pc \in {"check", "done"}
              /\ Done(r) => r.res.status = IF complete THEN 409 ELSE 400

\* With user b stored, a registration of username a under b's email was
\* answered 409.
C5_Witness ==
    \E s \in Slots :
        /\ reqs[s].route = "POST /api/auth/register" /\ Done(reqs[s])
        /\ reqs[s].seen = "stored" /\ reqs[s].res.status = 409
        /\ reqs[s].body.username = Str(<<97>>)
        /\ \E u \in users : u.email = reqs[s].body.email /\ u.username = Str(<<98>>)
        /\ \A u \in users : u.username # Str(<<97>>)

AuthRoutes == {"POST /api/auth/register", "POST /api/auth/login"}
SecretKeys == {"password", "password_hash"}

\* The password a request submitted and the stored hashes.
Secrets(r) == {r.body.password} \cup {u.password_hash : u \in users}

\* An object of a response: none of its keys names a secret and none of
\* its values (the numeric id aside) is one.
Discreet(object, r) ==
    /\ DOMAIN object \cap SecretKeys = {}
    /\ \A f \in (DOMAIN object) \ {"id"} : object[f] \notin Secrets(r)

-----------------------------------------------------------------------------
(* Claims about the pagination transformers.                               *)

\* The ceiling in force: the argument, or 100 when it is omitted.
Ceiling(maxLimit) == IF maxLimit = Undefined THEN DefaultMaxLimit ELSE maxLimit.num

PgBounds(c) ==
    /\ IsInt(c.result.page) /\ c.result.page.num >= 1
    /\ IsInt(c.result.limit)
    /\ c.result.limit.num >= 1 /\ c.result.limit.num <= Ceiling(c.maxLimit)
    /\ c.result.offset = Num((c.result.page.num - 1) * c.result.limit.num)

PgDefaults(c) ==
    /\ c.page \in PgUnparseable => c.result.page = Num(1)
    /\ c.limit \in PgUnparseable =>
          c.result.limit = Num(IF Ceiling(c.maxLimit) < 20 THEN Ceiling(c.maxLimit) ELSE 20)

\* C9 as stated: for every page, limit and maxLimit the result of
\* normalizePagination has 1 <= limit <= maxLimit, page >= 1 and
\* offset = (page - 1) * limit, and a missing or unparseable page gives
\* page 1, a missing or unparseable limit gives 20 clamped.
C9_NormalizeAnyMaxLimit ==
    (call.fn = "normalizePagination" /\ call.returned) =>
        PgBounds(call) /\ PgDefaults(call)

\* C9: for every page and limit and every maxLimit >= 1 (100 when omitted)
\* the result of normalizePagination has 1 <= limit <= maxLimit, page >= 1
\* and offset = (page - 1) * limit, a missing or unparseable page gives
\* page 1 and a missing or unparseable limit gives 20 clamped to maxLimit;
\* for a maxLimit below 1 the resulting limit is maxLimit itself.
C9_NormalizePagination ==
    (call.fn = "normalizePagination" /\ call.returned) =>
        IF Ceiling(call.maxLimit) >= 1
        THEN PgBounds(call) /\ PgDefaults(call)
        ELSE /\ call.result.limit = call.maxLimit
             /\ IsInt(call.result.page) /\ call.result.page.num >= 1
             /\ call.result.offset =
                   Num((call.result.page.num - 1) * call.result.limit.num)

\* normalizePagination("2", "200") gave page 2, limit 100, offset 100.
C9_Witness ==
    /\ call.fn = "normalizePagination" /\ call.returned
    /\ call.page = Str(<<50>>) /\ call.limit = Str(<<50, 48, 48>>)
    /\ call.maxLimit = Undefined
    /\ call.result = [page |-> Num(2), limit |-> Num(100), offset |-> Num(100)]

\* C10: for integers page >= 1, limit >= 1 and total >= 0
\* createPaginationMeta gives totalPages the least count of pages of limit
\* items that hold total items, hasNextPage = (page * limit < total) and
\* hasPreviousPage = (page > 1); total 0 gives totalPages 0 and no next
\* page; (2, 10, 45) gives 5 pages with a next and a previous page; and
\* hasNextPage holds exactly when page < totalPages.
C10_PaginationMeta ==
    (call.fn = "createPaginationMeta" /\ call.returned
       /\ call.page >= 1 /\ call.limit >= 1) =>
        LET r == call.result
        IN  /\ r.page = Num(call.page) /\ r.limit = Num(call.limit)
            /\ r.total = Num(call.total)
            /\ IsInt(r.totalPages) /\ r.totalPages.num >= 0
            /\ r.totalPages.num * call.limit >= call.total
            /\ (r.totalPages.num - 1) * call.limit < call.total
            /\ r.hasNextPage = (call.page * call.limit < call.total)
            /\ r.hasPreviousPage = (call.page > 1)
            /\ call.total = 0 => r.totalPages = Num(0) /\ ~r.hasNextPage
            /\ (call.page = 2 /\ call.limit = 10 /\ call.total = 45) =>
                  r.totalPages = Num(5) /\ r.hasNextPage /\ r.hasPreviousPage
            /\ r.hasNextPage = (call.page < r.totalPages.num)

\* createPaginationMeta(2, 10, 45) was applied and reported 5 pages.
C10_Witness ==
    /\ call.fn = "createPaginationMeta" /\ call.returned
    /\ call.page = 2 /\ call.limit = 10 /\ call.total = 45
    /\ call.result.totalPages = Num(5)
    /\ call.result.hasNextPage /\ call.result.hasPreviousPage

-----------------------------------------------------------------------------
(* Claims about the string transformers.                                   *)

\* C11: the result of sanitize is a string without a character in
\* U+00-U+08, U+0B-U+0C, U+0E-U+1F, U+7F and without white space at either
\* end, sanitizing it again changes nothing, and an input that is no
\* string gives the empty string.
C11_Sanitize ==
    (call.fn = "sanitize" /\ call.returned) =>
        LET r == call.result
        IN  /\ r.type = "string"
            /\ call.str.type # "string" => r = Str(<<>>)
            /\ \A i \in 1..Len(r.str) :
                  r.str[i] \notin (0..8 \cup {11, 12} \cup 14..31 \cup {127})
            /\ r.str # <<>> =>
                  r.str[1] \notin TrimSpace /\ r.str[Len(r.str)] \notin TrimSpace
            /\ sanitize(r) = r

\* C12: for a maxLength >= 0 the result of truncate has at most maxLength
\* code units; it is sanitize(s) when that is no longer than maxLength and
\* the first maxLength code units of sanitize(s) otherwise.
C12_Truncate ==
    (call.fn = "truncate" /\ call.returned /\ call.maxLength.num >= 0) =>
        LET r == call.result
            clean == sanitize(call.str).str
            n == call.maxLength.num
        IN  /\ r.type = "string"
            /\ Len(r.str) <= n
            /\ Len(clean) <= n => r.str = clean
            /\ Len(clean) > n =>
                  Len(r.str) = n /\ \A i \in 1..n : r.str[i] = clean[i]

\* truncate("a a", 2) was cut to "a ".
C12_Witness ==
    /\ call.fn = "truncate" /\ call.returned
    /\ call.str = Str(<<97, 32, 97>>) /\ call.maxLength = Num(2)
    /\ call.result = Str(<<97, 32>>)

\* What one character of the sanitized input becomes.
EntityOf(c) ==
    CASE c = 38 -> <<38, 97, 109, 112, 59>>
      [] c = 60 -> <<38, 108, 116, 59>>
      [] c = 62 -> <<38, 103, 116, 59>>
      [] c = 34 -> <<38, 113, 117, 111, 116, 59>>
      [] c = 39 -> <<38, 35, 48, 51, 57, 59>>
      [] OTHER -> <<c>>
RECURSIVE EachEscaped(_)
EachEscaped(s) == IF s = <<>> THEN <<>> ELSE EntityOf(Head(s)) \o EachEscaped(Tail(s))

StartsEntity(out, i) ==
    \E c \in {38, 60, 62, 34, 39} :
        /\ i + Len(EntityOf(c)) - 1 <= Len(out)
        /\ SubSeq(out, i, i + Len(EntityOf(c)) - 1) = EntityOf(c)

\* C13: the output of escapeHtml holds no < > " or ', each & in it starts
\* one of the five entities, and the output is sanitize(s) with each of
\* & < > " ' replaced, once, by its entity: the & of an entity is not
\* escaped again.
C13_EscapeHtml ==
    (call.fn = "escapeHtml" /\ call.returned) =>
        LET out == call.result.str
        IN  /\ \A i \in 1..Len(out) : out[i] \notin {60, 62, 34, 39}
            /\ \A i \in 1..Len(out) : out[i] = 38 => StartsEntity(out, i)
            /\ out = EachEscaped(sanitize(call.str).str)
            /\ call.str = Str(<<60>>) => out = <<38, 108, 116, 59>>

\* escapeHtml("<&'") gave "&lt;&amp;&#039;".
C13_Witness ==
    /\ call.fn = "escapeHtml" /\ call.returned
    /\ call.str = Str(<<60, 38, 39>>)
    /\ call.result = Str(<<38, 108, 116, 59, 38, 97, 109, 112, 59, 38, 35, 48, 51, 57, 59>>)

-----------------------------------------------------------------------------
(* Claims about the number and boolean transformers.                       *)

\* C14: for min <= max the result of clamp is a number within [min, max],
\* it is the value itself when the value is a number already within the
\* range, and clamping the result again changes nothing.
C14_Clamp ==
    (call.fn = "clamp" /\ call.returned /\ call.min.num <= call.max.num) =>
        LET r == call.result
        IN  /\ IsInt(r) /\ call.min.num <= r.num /\ r.num <= call.max.num
            /\ (/\ IsInt(call.value)
                /\ call.min.num <= call.value.num
                /\ call.value.num <= call.max.num) => r = call.value
            /\ clamp(r, call.min, call.max) = r

\* The string is the lower-case word but for the case of its letters.
SameIgnoringCase(str, word) ==
    /\ Len(str) = Len(word)
    /\ \A i \in 1..Len(str) :
          str[i] = word[i] \/ (str[i] \in 65..90 /\ str[i] + 32 = word[i])

\* C18: toBool returns a boolean: the value itself for a boolean, value
\* # 0 for a number, for a string whether it is "true", "1" or "yes" but
\* for letter case (so false for "false", "0" and ""), and the truthiness
\* of any other value (false for null and undefined).
C18_ToBool ==
    (call.fn = "toBool" /\ call.returned) =>
        LET v == call.value
            r == call.result
        IN  /\ r \in {Bool(TRUE), Bool(FALSE)}
            /\ v \in {Bool(TRUE), Bool(FALSE)} => r = v
            /\ v \in {Num(n) : n \in (0 - 1)..MaxClamp} => r.bool = (v.num # 0)
            /\ v \in {Null, Undefined} => r = Bool(FALSE)
            /\ v = AnObject => r = Bool(TRUE)
            /\ ("type" \in DOMAIN v /\ v.type = "string") =>
                  r.bool = \E word \in {<<116, 114, 117, 101>>, <<49>>, <<121, 101, 115>>} :
                              SameIgnoringCase(v.str, word)
            /\ v \in {Str(<<102, 97, 108, 115, 101>>), Str(<<48>>), Str(<<>>)} =>
                  r = Bool(FALSE)

\* toBool("YES") gave true.
C18_Witness ==
    /\ call.fn = "toBool" /\ call.returned
    /\ call.value = Str(<<89, 69, 83>>) /\ call.result = Bool(TRUE)

-----------------------------------------------------------------------------
(* Claims about the shapers.                                               *)

\* C15: the record input.todo returns has a key only if the body has that
\* key, and the PATCH built from the shaped record of a body without title
\* sets no title and leaves the stored title as it is.
C15_SparseTodoPatch ==
    (call.fn = "input.todo" /\ call.returned) =>
        /\ \A f \in DOMAIN call.result : call.data[f] # Undefined
        /\ call.data.title = Undefined =>
              /\ call.updates.title = Undefined
              /\ call.updated.title = StoredTodo.title

\* C19: input.wish returns the keys name, content, category, is_anonymous:
\* name is truncate(data.name, 100), at most 100 code units without
\* leading white space or control characters; content is
\* truncate(data.content, 1000); category is data.category when that is
\* nice or naughty and nice otherwise; is_anonymous is the boolean
\* toBool(data.is_anonymous).
C19_WishShaper ==
    (call.fn = "input.wish" /\ call.returned) =>
        LET r == call.result
            d == call.data
        IN  /\ DOMAIN r = {"name", "content", "category", "is_anonymous"}
            /\ r.name = truncate(d.name, Num(100))
            /\ Len(r.name.str) <= 100
            /\ r.name.str # <<>> => r.name.str[1] \notin TrimSpace
            /\ \A i \in 1..Len(r.name.str) :
                  r.name.str[i] \notin (0..8 \cup {11, 12} \cup 14..31 \cup {127})
            /\ r.content = truncate(d.content, Num(1000))
            /\ Len(r.content.str) <= 1000
            /\ r.category = IF d.category \in {Str(nice), Str(naughty)}
                            THEN d.category ELSE Str(nice)
            /\ r.is_anonymous \in {Bool(TRUE), Bool(FALSE)}
            /\ r.is_anonymous = toBool(d.is_anonymous)

\* C20: input.userRegistration returns the password exactly as submitted,
\* username = truncate(data.username, 50), at most 50 code units, and
\* email = truncate(data.email, 100) in lower case, without any upper-case
\* letter.
C20_RegistrationShaper ==
    (call.fn = "input.userRegistration" /\ call.returned) =>
        LET r == call.result
            d == call.data
            cut == truncate(d.email, Num(100)).str
        IN  /\ DOMAIN r = {"username", "email", "password"}
            /\ r.password = d.password
            /\ r.username = truncate(d.username, Num(50))
            /\ Len(r.username.str) <= 50
            /\ Len(r.email.str) = Len(cut) /\ Len(cut) <= 100
            /\ \A i \in 1..Len(cut) :
                  /\ r.email.str[i] \notin 65..90
                  /\ r.email.str[i] = IF cut[i] \in 65..90 THEN cut[i] + 32 ELSE cut[i]

\* A 51-letter username was cut to 50, an email of 101 capitals came back
\* as 100 small letters and a password with white space around it came
\* back untouched.
C20_Witness ==
    /\ call.fn = "input.userRegistration" /\ call.returned
    /\ call.data.username = Str(Letters(51)) /\ Len(call.result.username.str) = 50
    /\ call.data.email = Str([i \in 1..101 |-> 65])
    /\ call.result.email = Str(Letters(100))
    /\ call.data.password = Str(<<32, 80, 119, 32>>)
    /\ call.result.password = Str(<<32, 80, 119, 32>>)

-----------------------------------------------------------------------------
(* Claims about the validators.                                            *)

\* The field name occurs in the message.
Names(message, fieldName) ==
    \E i \in 0..(Len(message) - Len(fieldName)) :
        SubSeq(message, i + 1, i + Len(fieldName)) = fieldName

\* The length the statement gives a value: the number of code units of a
\* string, 0 for a falsy value.
StatedLength(v) == IF Truthy(v) THEN Len(v.str) ELSE 0

\* C21: required fails exactly for undefined, null and "" (0 and false
\* pass); length fails exactly when the length of the string, 0 for a
\* falsy value, is below min or above max; enum fails exactly when the
\* value is no member of the allowed values; a validator that does not
\* fail returns true, and the message of a failure names the field.
C21_Validators ==
    call.returned =>
        LET r == call.result
        IN  /\ call.fn = "required" =>
                  /\ r.threw <=> call.value \in {Undefined, Null, Str(<<>>)}
                  /\ call.value \in {Num(0), Bool(FALSE)} => ~r.threw
            /\ (call.fn = "length" /\ (call.str.type = "string" \/ ~Truthy(call.str))) =>
                  (r.threw <=> \/ StatedLength(call.str) < call.min.num
                               \/ StatedLength(call.str) > call.max.num)
            /\ call.fn = "enum" =>
                  (r.threw <=> call.value \notin {call.allowedValues[i] :
                                                     i \in 1..Len(call.allowedValues)})
            /\ call.fn \in {"required", "length", "enum"} =>
                  IF r.threw THEN Names(r.message, call.fieldName)
                  ELSE r = Returned(Bool(TRUE))

\* required(0, "title") returned true.
C21_Witness ==
    /\ call.fn = "required" /\ call.returned
    /\ call.value = Num(0) /\ call.fieldName = title
    /\ call.result = Returned(Bool(TRUE))

-----------------------------------------------------------------------------
(* Claims about the todo listing.                                          *)

\* The user a valid Authorization header was issued to.
IssuedTo(authorization) == BearerToken(authorization).payload.id

\* A todo row is stored with the id of the user whose request inserted it,
\* and keeps it.
C22_CreatorStep ==
    \A t \in todos' :
        IF \E u \in todos : u.id = t.id
        THEN \A u \in todos : u.id = t.id => u.user_id = t.user_id
        ELSE \E s \in Slots :
                /\ reqs[s].route = "POST /api/todos" /\ reqs[s].pc = "insert"
                /\ reqs'[s].pc = "stats" /\ reqs'[s].params.insertId = t.id
                /\ IssuedTo(reqs[s].authorization) = t.user_id
\* The todos GET /api/todos answers with are the stored todos of the
\* requesting user that pass the filters of the query.
C22_ListStep ==
    \A s \in Slots :
        (reqs[s].route = "GET /api/todos" /\ reqs[s].pc = "select" /\ reqs'[s] # reqs[s]) =>
            LET q == reqs[s].query
                mine == {t \in todos : t.user_id = IssuedTo(reqs[s].authorization)}
                done == IF q.completed = Str(<<116, 114, 117, 101>>) THEN Num(1) ELSE Num(0)
                wanted == {t \in mine :
                              /\ q.completed # Undefined => t.completed = done
                              /\ q.priority \in {Str(low), Str(medium), Str(high)} =>
                                    t.priority = q.priority}
                listed == reqs'[s].res.body.todos
            IN  /\ Done(reqs'[s]) /\ reqs'[s].res.status = 200
                /\ {v.id : v \in listed} \subseteq {t.id : t \in mine}
                /\ {v.id : v \in listed} = {t.id : t \in wanted}
                /\ \A v \in listed : \E t \in wanted : v = [f \in DOMAIN v |-> t[f]]

\* C22: GET /api/todos returns only todos whose user_id is the id of the
\* authenticated user, whatever the completed and priority filters, and no
\* listing holds a todo another user created.
C22_TodoListIsolation == [][C22_CreatorStep /\ C22_ListStep]_vars

\* Users 1 and 2 each have a stored todo, and a listing answered to user 1
\* holds user 1's todo alone.
C22_Witness ==
    \E s \in Slots :
        /\ reqs[s].route = "GET /api/todos" /\ Done(reqs[s]) /\ reqs[s].res.status = 200
        /\ IssuedTo(reqs[s].authorization) = 1
        /\ \E t, u \in todos :
              /\ t.user_id = 1 /\ u.user_id = 2
              /\ {v.id : v \in reqs[s].res.body.todos} = {t.id}

-----------------------------------------------------------------------------
(* Claims about the music routes.                                          *)

\* The play request in slot s has its UPDATE run in this step.
Plays(s) ==
    /\ reqs[s].route = "POST /api/music/:id/play" /\ reqs[s].pc = "update"
    /\ Done(reqs'[s]) /\ reqs'[s].res.status = 200

\* No song appears or disappears and no play_count decreases; a play
\* request whose UPDATE runs raises the play_count of its song by one and
\* leaves every other song as it was; no other step changes a play_count.
C29_Step ==
    /\ {m.id : m \in music_playlist'} = {m.id : m \in music_playlist}
    /\ \A m \in music_playlist : PlayCount(music_playlist', m.id) >= m.play_count
    /\ \A s \in Slots :
          Plays(s) =>
              \A m \in music_playlist :
                  PlayCount(music_playlist', m.id) =
                      IF m.id = reqs[s].params.id THEN m.play_count + 1 ELSE m.play_count
    /\ music_playlist' # music_playlist => \E s \in Slots : Plays(s)
\* A play request for an id no song has is answered 404 and wrote nothing.
C29_Missing ==
    \A s \in Slots :
        (reqs[s].route = "POST /api/music/:id/play"
            /\ reqs[s].params.id \notin {m.id : m \in music_playlist}
            /\ reqs[s].error = NoError
            /\ Done(reqs[s])) =>
            /\ reqs[s].res = Response(404, [error |-> "Song not found"])
            /\ reqs[s].writes = 0

\* C29: a song's play_count never decreases; a successful POST
\* /api/music/:id/play for a stored song raises that song's play_count by
\* exactly one and changes no other song; a play request for an id that is
\* not stored is answered 404 and changes no play_count.
C29_PlayCountMonotonic == [](C29_Missing) /\ [][C29_Step]_vars

\* Song 1 was played twice and song 2 once, the last play answered 200.
C29_Witness ==
    /\ PlayCount(music_playlist, 1) = 2 /\ PlayCount(music_playlist, 2) = 1
    /\ PlayCount(music_playlist, 3) = 0
    /\ \E s \in Slots :
          /\ reqs[s].route = "POST /api/music/:id/play" /\ Done(reqs[s])
          /\ reqs[s].res.status = 200

-----------------------------------------------------------------------------
(* Claims about the stats routes.                                          *)

\* The visit request in slot s has its statement run in this step.
Visits(s) ==
    /\ reqs[s].route = "POST /api/stats/visit" /\ reqs[s].pc = "upsert"
    /\ Done(reqs'[s]) /\ reqs'[s].res.status = 200

\* A visit whose statement runs leaves today's row with visit_count one
\* higher, or 1 when there was no row, and the other columns as they were;
\* no other step changes the row or removes it.
C26_Step ==
    /\ \A s \in Slots :
          Visits(s) =>
              /\ site_stats' # NoRow
              /\ site_stats' = IF site_stats = NoRow
                               THEN [ZeroStats EXCEPT !.visit_count = 1]
                               ELSE [site_stats EXCEPT !.visit_count = @ + 1]
    /\ site_stats' # site_stats => \E s \in Slots : Visits(s)
\* A visit request has one statement only: it awaits its upsert or is
\* answered, and an answer of 200 follows exactly one write.
C26_OneStatement ==
    \A s \in Slots :
        reqs[s].route = "POST /api/stats/visit" =>
            /\ reqs[s].pc \in {"upsert", "done"}
            /\ reqs[s].pc = "upsert" => reqs[s].writes = 0
            /\ (Done(reqs[s]) /\ reqs[s].res.status = 200) => reqs[s].writes = 1

\* C26: under any interleaving of successful POST /api/stats/visit
\* requests of one day, the day's row has visit_count raised by exactly
\* the number of requests (starting at 1 when the row did not exist), and
\* the handler never reads the counter and writes it back in separate
\* steps.
C26_VisitCounter == [](C26_OneStatement) /\ [][C26_Step]_vars

\* Both slots hold a visit answered 200 and the day's visit_count is 2.
C26_Witness ==
    /\ site_stats # NoRow /\ site_stats.visit_count = 2
    /\ \A s \in Slots :
          /\ reqs[s].route = "POST /api/stats/visit" /\ Done(reqs[s])
          /\ reqs[s].res.status = 200

-----------------------------------------------------------------------------
(* Claims about the whole server.                                          *)

\* The request had a statement rejected.
Failed(req) == "error" \in DOMAIN req /\ req.error # NoError
\* The request in slot s has the statement it awaits rejected in this step.
Fails(s) == ~Failed(reqs[s]) /\ Failed(reqs'[s])

\* A rejected statement changes no table and ends the request, which has
\* no further step: the slot changes again only when the next request is
\* admitted.
C23_Step ==
    \A s \in Slots :
        /\ Fails(s) =>
              /\ reqs[s].pc \in StoreStatements
              /\ UNCHANGED tables
              /\ Done(reqs'[s]) /\ reqs'[s].writes = reqs[s].writes
              /\ reqs'[s].route = reqs[s].route
        /\ (Failed(reqs[s]) /\ reqs'[s] # reqs[s]) =>
              /\ UNCHANGED tables
              /\ ~Failed(reqs'[s]) /\ reqs'[s].writes = 0
              /\ reqs'[s].res.status # 500
\* A request whose statement was rejected is answered 500 'Internal server
\* error', with the error's message exactly when NODE_ENV is development;
\* every 500 has that error text.
C23_Responder ==
    \A s \in Slots :
        /\ Failed(reqs[s]) =>
              /\ Done(reqs[s]) /\ reqs[s].res.status = 500
              /\ "message" \in DOMAIN reqs[s].res.body <=>
                    reqs[s].error.env = Str(<<100, 101, 118, 101, 108, 111, 112, 109, 101, 110, 116>>)
              /\ "message" \in DOMAIN reqs[s].res.body =>
                    reqs[s].res.body.message = reqs[s].error.message
        /\ (Done(reqs[s]) /\ reqs[s].res.status = 500) =>
              reqs[s].res.body.error = "Internal server error"

\* C23: when a persistence call of a route handler fails, the handler
\* issues no further persistence call, nothing is retried, and the request
\* is answered 500 'Internal server error' by errorHandler, the internal
\* message being in the response only when NODE_ENV is development.
C23_FailurePropagation == [](C23_Responder) /\ [][C23_Step]_vars

\* The second SELECT of a PATCH was rejected after its UPDATE ran, under
\* NODE_ENV=production: the answer is 500 without a message.
C23_Witness ==
    \E s \in Slots :
        /\ reqs[s].route = "PATCH /api/todos/:id" /\ Failed(reqs[s])
        /\ reqs[s].writes = 1
        /\ reqs[s].error.env = Str(production)
        /\ reqs[s].res = Response(500, [error |-> "Internal server error"])

\* Every stored wish is still stored, with the same columns, after the
\* step; the wishes table changes only in the INSERT step of a POST
\* /api/wishes, which adds one row under an id no stored wish has.
C24_Step ==
    /\ \A w \in wishes :
          \E x \in wishes' :
              /\ x.id = w.id /\ x.user_id = w.user_id /\ x.name = w.name
              /\ x.content = w.content /\ x.category = w.category
              /\ x.is_anonymous = w.is_anonymous
    /\ wishes' # wishes =>
          /\ \E s \in Slots :
                /\ reqs[s].route = "POST /api/wishes" /\ reqs[s].pc = "insert"
                /\ reqs'[s].pc = "stats"
          /\ \E w \in wishes' :
                /\ wishes' = wishes \cup {w}
                /\ w.id \notin {x.id : x \in wishes}

\* C24: after any sequence of requests to any endpoint, every stored wish
\* keeps its id, user_id, name, content, category and is_anonymous and is
\* never removed; POST /api/wishes only adds one new row.
C24_WishesImmutable == [][C24_Step]_vars

\* Two wishes are stored and the registered user's DELETE of a todo was
\* answered 200.
C24_Witness ==
    /\ \E w, x \in wishes : w.id = 1 /\ x.id = 2
    /\ \E s \in Slots :
          /\ reqs[s].route = "DELETE /api/todos/:id" /\ Done(reqs[s])
          /\ reqs[s].res.status = 200

-----------------------------------------------------------------------------
(* Claims about concurrent requests and the daily counters.                *)

\* C25: when registrations carrying the same username or email are
\* interleaved in any order, at most one user row is created for them, and
\* the request whose INSERT the unique keys refused is answered 409.
C25_ConflictUnderConcurrency ==
    /\ \A u, v \in users :
          (SqlEq(u.username, v.username) \/ SqlEq(u.email, v.email)) => u = v
    /\ \A s \in Slots :
          (reqs[s].route = "POST /api/auth/register" /\ Done(reqs[s])
              /\ reqs[s].body.password.type = "string"
              /\ reqs[s].res.status \notin {201, 400}) =>
              reqs[s].res.status = 409

\* Today's value of a counter of site_stats.
Counter(row, column) == TodayStats(row)[column]

\* The creation request in slot s has its stats statement run and is
\* answered 201 in this step.
Created(s, route) ==
    /\ reqs[s].route = route /\ reqs[s].pc = "stats"
    /\ Done(reqs'[s]) /\ reqs'[s].res.status = 201
\* The creation request in slot s gets its answer 201 in this step.
Answered201(s, route) ==
    /\ reqs'[s] # reqs[s]
    /\ reqs'[s].route = route /\ Done(reqs'[s]) /\ reqs'[s].res.status = 201

\* A creation answered 201 raises its counter by one in the step that
\* answers it, its record having been inserted before; a 201 is given
\* in no other step and the counters change in no other step.
C27_Step ==
    /\ \A s \in Slots :
          /\ Created(s, "POST /api/wishes") =>
                /\ Counter(site_stats', "wishes_count") = Counter(site_stats, "wishes_count") + 1
                /\ Counter(site_stats', "todos_count") = Counter(site_stats, "todos_count")
                /\ reqs[s].params.insertId < autoinc.wishes /\ reqs[s].writes = 1
          /\ Created(s, "POST /api/todos") =>
                /\ Counter(site_stats', "todos_count") = Counter(site_stats, "todos_count") + 1
                /\ Counter(site_stats', "wishes_count") = Counter(site_stats, "wishes_count")
                /\ reqs[s].params.insertId < autoinc.todos /\ reqs[s].writes = 1
          /\ Answered201(s, "POST /api/wishes") => Created(s, "POST /api/wishes")
          /\ Answered201(s, "POST /api/todos") => Created(s, "POST /api/todos")
    /\ Counter(site_stats', "wishes_count") # Counter(site_stats, "wishes_count") =>
          \E s \in Slots : Created(s, "POST /api/wishes")
    /\ Counter(site_stats', "todos_count") # Counter(site_stats, "todos_count") =>
          \E s \in Slots : Created(s, "POST /api/todos")
\* The creations that inserted their record and await their stats statement.
Counting(route) == Cardinality({s \in Slots : reqs[s].route = route /\ reqs[s].pc = "stats"})
\* A counter never exceeds the number of records inserted and counted.
C27_Counts ==
    /\ Counter(site_stats, "wishes_count") + Counting("POST /api/wishes") <= autoinc.wishes - 1
    /\ Counter(site_stats, "todos_count") + Counting("POST /api/todos") <= autoinc.todos - 1

\* C27: within a day, every POST /api/wishes answered 201 raises
\* wishes_count by exactly one and every POST /api/todos answered 201
\* raises todos_count by exactly one, after the record's insert and before
\* the response; no other request changes the two counters, which never
\* exceed the number of wishes and todos inserted.
C27_CreationCounters == [](C27_Counts) /\ [][C27_Step]_vars

\* Two wishes and a todo were created and counted, and a visit recorded.
C27_Witness ==
    /\ site_stats = [visit_count |-> 1, active_users |-> 0, wishes_count |-> 2,
                     todos_count |-> 1]
    /\ \E s \in Slots :
          reqs[s].route = "POST /api/todos" /\ Done(reqs[s]) /\ reqs[s].res.status = 201

\* C28: a POST /api/wishes or POST /api/todos answered with an error
\* status (400, 401, 403 or 500, a failure of the stats increment
\* included) has written nothing: a wish or todo row exists only if the
\* request that created it was answered 201.
C28_CreationAllOrNothing ==
    \A s \in Slots :
        (reqs[s].route \in {"POST /api/wishes", "POST /api/todos"} /\ Done(reqs[s])) =>
            /\ reqs[s].res.status \in {201, 400, 401, 403, 500}
            /\ reqs[s].res.status # 201 =>
                  /\ reqs[s].writes = 0
                  /\ "params" \in DOMAIN reqs[s] /\ "insertId" \in DOMAIN reqs[s].params =>
                        /\ reqs[s].route = "POST /api/wishes" =>
                              reqs[s].params.insertId \notin {w.id : w \in wishes}
                        /\ reqs[s].route = "POST /api/todos" =>
                              reqs[s].params.insertId \notin {t.id : t \in todos}

-----------------------------------------------------------------------------
(* Claims about the login.                                                 *)

\* C30: a login with both fields present is answered 401 'Invalid
\* credentials', without a token, alike for an unknown username or email
\* and for a known account with a wrong password; it is answered with a
\* token only when a stored user matches and the password verifies, the
\* token's payload being that user's id, username and email.
C30_LoginIndistinguishable ==
    \A s \in Slots :
        (reqs[s].route = "POST /api/auth/login" /\ Done(reqs[s])
            /\ Truthy(reqs[s].body.username) /\ Truthy(reqs[s].body.password)) =>
            \/ reqs[s].res = Response(401, [error |-> "Invalid credentials"])
            \/ /\ reqs[s].res.status = 200
               /\ \E u \in users :
                     /\ SqlEq(u.username, reqs[s].body.username)
                           \/ SqlEq(u.email, reqs[s].body.username)
                     /\ bcryptCompare(reqs[s].body.password, u.password_hash)
                     /\ reqs[s].res.body.token = jwtSign(Identity(u))

====
